---------------------------- MODULE Spec2Model ----------------------------
(***************************************************************************)
(* Model of the Tekken 8 frame-data importer                               *)
(* (DatabaseMan/Tekken8/ImportFrameDataFromWavu.py).                       *)
(*                                                                         *)
(* Text is modelled as a sequence of one-character strings, so that        *)
(* trimming, splitting, prefix tests and number extraction are computed    *)
(* character by character as the Python code computes them.               *)
(***************************************************************************)
EXTENDS Integers, Sequences, FiniteSets, TLC

VARIABLES
    \* ---- DatabaseMan._parse_move_table ----
    pc,                 \* position inside _parse_move_table
    doc,                \* the tokenised document (the three re.findall results)
    inherit_map,        \* child id -> parent id
    key_order,          \* insertion order of the keys of all_parsed_moves
    all_parsed_moves,   \* id -> parsed parameters
    idx,                \* progress of the loop the handler is in
    processed_ids,      \* terminals already emitted
    final_moves_data,   \* the records built so far
    root_id,            \* move_id of the root being walked
    current_id,         \* id of the link the walk stands on
    full_command_parts, \* command fragments collected by the walk
    all_notes_raw,      \* raw notes collected by the walk
    chain,              \* history: ids visited by the walk in progress
    chains,             \* history: the chain behind each emitted record
    \* ---- DatabaseMan._clean_numerical (pure function) ----
    value,              \* the text field handed to the function
    result,             \* what it returned
    phase,              \* "start" before the call, "done" after it
    \* ---- the parameter scan of one template (lines 279-298) ----
    template_content,   \* the text between '{{Move|' and '}}', newlines replaced
    scan_pos,           \* position of the next character of the for loop
    params,             \* the parameters split off so far
    current_param,      \* the parameter being read
    brace_level,        \* nesting depth of the braces read so far
    \* ---- the calls of _parse_move_table by the loop of lines 638-647 ----
    returned,           \* history: (document, records) of every earlier call
    \* ---- re.findall of the Move template (lines 231-232) ----
    wikitext,           \* the page text
    match_pos,          \* position where the next match is searched
    template_matches,   \* the parameter lists captured so far
    \* ---- SC6ImportFrameData.py: the character manifest (lines 356-471) ----
    game_json,          \* the "characters" list of the file Game.json
    frame_characters,   \* the names in the Character column of the frame data
    existing_game_data, \* the "characters" list as read at line 363
    max_char_id,        \* highest id seen or assigned so far
    characters,         \* the sorted names of line 376
    characters_manifest, \* the entries built so far
    name_idx,           \* position of the for loop of line 379
    export_pc,          \* "start", "manifest" or "written"
    export_run,         \* which run of the export this is
    \* ---- SC6ImportFrameData.py: caseFixer (lines 320-345) ----
    stance,             \* the text that is left of the stance
    stances,            \* the replacements appended so far
    test_idx,           \* position of the for loop of line 327
    fix_pc              \* "loop" or "returned"

parseVars == <<pc, doc, inherit_map, key_order, all_parsed_moves, idx,
               processed_ids, final_moves_data, root_id, current_id,
               full_command_parts, all_notes_raw, chain, chains>>
numVars == <<value, result, phase>>
scanVars == <<template_content, scan_pos, params, current_param, brace_level>>
tokenVars == <<wikitext, match_pos, template_matches>>
charVars == <<game_json, frame_characters, existing_game_data, max_char_id, characters,
              characters_manifest, name_idx, export_pc, export_run>>
fixVars == <<stance, stances, test_idx, fix_pc>>
vars == <<pc, doc, inherit_map, key_order, all_parsed_moves, idx,
          processed_ids, final_moves_data, root_id, current_id,
          full_command_parts, all_notes_raw, chain, chains,
          value, result, phase,
          template_content, scan_pos, params, current_param, brace_level,
          returned, wikitext, match_pos, template_matches,
          game_json, frame_characters, existing_game_data, max_char_id, characters,
          characters_manifest, name_idx, export_pc, export_run,
          stance, stances, test_idx, fix_pc>>

----------------------------------------------------------------------------
(* Bounds of the model *)

\* longest generated input of the numeric-extraction specification
MaxNumLen == 3
\* most Move templates in a generated document
MaxMoves == 3
\* most command fragments one walk may collect in the model, beyond any
\* chain a document of the model can hold
MaxParts == 8
\* the most calls of _parse_move_table in one run of the program
MaxCalls == 3
\* the most items (characters or nested templates) of a scanned template
MaxScanItems == 3

----------------------------------------------------------------------------
(* Python values *)

\* None where the code expects a str (dict.get without a default)
None == <<"None">>
\* None where the code produces an int: Absent, or <<n>> for the int n
Absent == <<>>
Some(n) == <<n>>

----------------------------------------------------------------------------
(* str methods, on sequences of characters *)

Min(S) == CHOOSE m \in S : \A n \in S : m <= n
Max(S) == CHOOSE m \in S : \A n \in S : m >= n

IsSpace(c) == c \in {" ", "\t", "\n", "\r"}
IsDigit(c) == c \in {"0", "1", "2", "3", "4", "5", "6", "7", "8", "9"}

DigitVal(c) ==
    CASE c = "0" -> 0 [] c = "1" -> 1 [] c = "2" -> 2 [] c = "3" -> 3
      [] c = "4" -> 4 [] c = "5" -> 5 [] c = "6" -> 6 [] c = "7" -> 7
      [] c = "8" -> 8 [] c = "9" -> 9

RECURSIVE lstrip(_)
lstrip(s) == IF s # <<>> /\ IsSpace(Head(s)) THEN lstrip(Tail(s)) ELSE s

RECURSIVE rstrip(_)
rstrip(s) ==
    IF s # <<>> /\ IsSpace(s[Len(s)]) THEN rstrip(SubSeq(s, 1, Len(s) - 1)) ELSE s

\* str.strip()
strip(s) == rstrip(lstrip(s))

\* str.startswith(p)
startswith(s, p) == Len(s) >= Len(p) /\ SubSeq(s, 1, Len(p)) = p

\* str.find(p, from), 1-based; 0 when p does not occur at or after from
find(s, p, from) ==
    LET I == {i \in from..(Len(s) - Len(p) + 1) : SubSeq(s, i, i + Len(p) - 1) = p}
    IN  IF I = {} THEN 0 ELSE Min(I)

\* str.rfind(p), 1-based; 0 when p does not occur
rfind(s, p) ==
    LET I == {i \in 1..(Len(s) - Len(p) + 1) : SubSeq(s, i, i + Len(p) - 1) = p}
    IN  IF I = {} THEN 0 ELSE Max(I)

\* p in s
contains(s, p) == find(s, p, 1) # 0

\* s.split(sep)[0] for a one-character separator
split_first(s, sep) ==
    LET i == find(s, <<sep>>, 1)
    IN  IF i = 0 THEN s ELSE SubSeq(s, 1, i - 1)

\* int() of a run of decimal digits
RECURSIVE digits_value(_)
digits_value(ds) ==
    IF ds = <<>> THEN 0
    ELSE 10 * digits_value(SubSeq(ds, 1, Len(ds) - 1)) + DigitVal(ds[Len(ds)])

\* "".join(parts)
RECURSIVE join_all(_)
join_all(parts) ==
    IF parts = <<>> THEN <<>> ELSE Head(parts) \o join_all(Tail(parts))

----------------------------------------------------------------------------
(* re: the regular expressions of the module, each matched the way Python's *)
(* backtracking matcher matches it (leftmost, greedy or lazy as written)    *)

UpperLetters == <<"A", "B", "C", "D", "E", "F", "G", "H", "I", "J", "K", "L", "M",
                  "N", "O", "P", "Q", "R", "S", "T", "U", "V", "W", "X", "Y", "Z">>
LowerLetters == <<"a", "b", "c", "d", "e", "f", "g", "h", "i", "j", "k", "l", "m",
                  "n", "o", "p", "q", "r", "s", "t", "u", "v", "w", "x", "y", "z">>

IsUpper(c) == \E i \in 1..26 : UpperLetters[i] = c
IsLower(c) == \E i \in 1..26 : LowerLetters[i] = c
\* [a-zA-Z]
IsAlpha(c) == IsUpper(c) \/ IsLower(c)

LowerChar(c) ==
    IF IsUpper(c) THEN LowerLetters[CHOOSE i \in 1..26 : UpperLetters[i] = c] ELSE c

\* str.lower()
lower_unchanged(s) == s

lower(s) == [i \in 1..Len(s) |-> LowerChar(s[i])]

\* the literal p stands at position i of s
at(s, i, p) == i >= 1 /\ i + Len(p) - 1 <= Len(s) /\ SubSeq(s, i, i + Len(p) - 1) = p

\* the same under re.IGNORECASE, p given in lower case
at_ci(s, i, p) ==
    i >= 1 /\ i + Len(p) - 1 <= Len(s) /\ lower(SubSeq(s, i, i + Len(p) - 1)) = p

\* first position >= from holding a character of C; 0 when there is none
first_in(s, C, from) ==
    LET I == {i \in from..Len(s) : s[i] \in C}
    IN  IF I = {} THEN 0 ELSE Min(I)

\* first position >= from where the character is not whitespace (\s* skipped);
\* Len(s) + 1 when only whitespace follows
skip_space(s, from) ==
    LET I == {i \in from..Len(s) : ~IsSpace(s[i])}
    IN  IF I = {} THEN Len(s) + 1 ELSE Min(I)

\* a match: the position of its last character (0: no match here) and the
\* text the substitution puts in its place
NoMatch == [end |-> 0, repl |-> <<>>]
Match(e, r) == [end |-> e, repl |-> r]

\* r'\{\{[^\|\}]+\|([^}]+)\}\}' -> r'\1'        (line 88)
m_template_value(s, i) ==
    IF ~at(s, i, <<"{", "{">>) THEN NoMatch
    ELSE LET j == first_in(s, {"|", "}"}, i + 2)
         IN  IF ~(j > i + 2 /\ s[j] = "|") THEN NoMatch
             ELSE LET k == first_in(s, {"}"}, j + 1)
                  IN  IF k > j + 1 /\ at(s, k, <<"}", "}">>)
                      THEN Match(k + 1, SubSeq(s, j + 1, k - 1))
                      ELSE NoMatch

\* r'\{\{([^}]+)\}\}' -> r'\1'                  (line 89)
m_template_name(s, i) ==
    IF ~at(s, i, <<"{", "{">>) THEN NoMatch
    ELSE LET k == first_in(s, {"}"}, i + 2)
         IN  IF k > i + 2 /\ at(s, k, <<"}", "}">>)
             THEN Match(k + 1, SubSeq(s, i + 2, k - 1))
             ELSE NoMatch

\* r'\[\[(?:[^\|\]]+\|)?([^\]]+)\]\]' -> r'\1'  (lines 96, 438, 513, 564)
m_wiki_link(s, i) ==
    IF ~at(s, i, <<"[", "[">>) THEN NoMatch
    ELSE LET k == first_in(s, {"]"}, i + 2)
         IN  IF ~(k > i + 2 /\ at(s, k, <<"]", "]">>)) THEN NoMatch
             ELSE LET j == first_in(SubSeq(s, 1, k - 1), {"|"}, i + 2)
                  IN  IF j > i + 2 /\ k > j + 1
                      THEN Match(k + 1, SubSeq(s, j + 1, k - 1))
                      ELSE Match(k + 1, SubSeq(s, i + 2, k - 1))

\* r'<!--.*?-->' with re.DOTALL -> ''            (lines 99, 186)
m_comment(s, i) ==
    IF ~at(s, i, <<"<", "!", "-", "-">>) THEN NoMatch
    ELSE LET e == find(s, <<"-", "-", ">">>, i + 4)
         IN  IF e = 0 THEN NoMatch ELSE Match(e + 2, <<>>)

\* r'<br\s*/?>' with re.IGNORECASE -> ' '        (lines 101, 187)
m_br(s, i) ==
    IF ~at_ci(s, i, <<"<", "b", "r">>) THEN NoMatch
    ELSE LET j == skip_space(s, i + 3)
             k == IF at(s, j, <<"/">>) THEN j + 1 ELSE j
         IN  IF at(s, k, <<">">>) THEN Match(k, <<" ">>) ELSE NoMatch

\* r'<ref.*?>.*?</ref>' with re.DOTALL | re.IGNORECASE -> ''   (lines 103, 188)
m_ref(s, i) ==
    IF ~at_ci(s, i, <<"<", "r", "e", "f">>) THEN NoMatch
    ELSE LET g == first_in(s, {">"}, i + 4)
         IN  IF g = 0 THEN NoMatch
             ELSE LET E == {e \in (g + 1)..Len(s) :
                               at_ci(s, e, <<"<", "/", "r", "e", "f", ">">>)}
                  IN  IF E = {} THEN NoMatch ELSE Match(Min(E) + 5, <<>>)

\* r'<ref\s+name=.*?\s*/>' with re.IGNORECASE -> ''            (lines 104, 189)
m_ref_named(s, i) ==
    IF ~at_ci(s, i, <<"<", "r", "e", "f">>) THEN NoMatch
    ELSE LET j == skip_space(s, i + 4)
         IN  IF ~(j > i + 4 /\ at_ci(s, j, <<"n", "a", "m", "e", "=">>)) THEN NoMatch
             ELSE LET E == {e \in (j + 5)..Len(s) :
                               /\ \A x \in (j + 5)..(e - 1) : s[x] # "\n"
                               /\ at(s, skip_space(s, e), <<"/", ">">>)}
                  IN  IF E = {} THEN NoMatch
                      ELSE Match(skip_space(s, Min(E)) + 1, <<>>)

\* r'<[a-zA-Z/][^>]*>' -> ''                     (line 106)
m_html_tag(s, i) ==
    IF ~(at(s, i, <<"<">>) /\ i + 1 <= Len(s) /\ (IsAlpha(s[i + 1]) \/ s[i + 1] = "/"))
    THEN NoMatch
    ELSE LET g == first_in(s, {">"}, i + 2)
         IN  IF g = 0 THEN NoMatch ELSE Match(g, <<>>)

\* the literal '&nbsp;' -> ' '                   (line 108, str.replace)
m_nbsp(s, i) ==
    IF at(s, i, <<"&", "n", "b", "s", "p", ";">>) THEN Match(i + 5, <<" ">>) ELSE NoMatch

\* r'\{\{\s*TAG\s*(?:\|.*?)?\}\}' with re.IGNORECASE -> replacement (line 178);
\* tag given in lower case
m_tag(tag, replacement, s, i) ==
    IF ~at(s, i, <<"{", "{">>) THEN NoMatch
    ELSE LET j == skip_space(s, i + 2)
         IN  IF ~at_ci(s, j, tag) THEN NoMatch
             ELSE LET k == skip_space(s, j + Len(tag))
                  IN  IF at(s, k, <<"|">>)
                      THEN LET e == find(s, <<"}", "}">>, k + 1)
                           IN  IF e # 0 /\ \A x \in (k + 1)..(e - 1) : s[x] # "\n"
                               THEN Match(e + 1, replacement)
                               ELSE NoMatch
                      ELSE IF at(s, k, <<"}", "}">>)
                           THEN Match(k + 1, replacement)
                           ELSE NoMatch

\* r'\{\{([^}|]+)\}\}' -> r'\1'                  (line 181)
m_bare_template(s, i) ==
    IF ~at(s, i, <<"{", "{">>) THEN NoMatch
    ELSE LET k == first_in(s, {"}", "|"}, i + 2)
         IN  IF k > i + 2 /\ at(s, k, <<"}", "}">>)
             THEN Match(k + 1, SubSeq(s, i + 2, k - 1))
             ELSE NoMatch

\* r'\[\[(?:[^|\]]+\|)?([^|\]]+)\]\]' -> r'\1'   (line 183)
m_notes_link(s, i) ==
    IF ~at(s, i, <<"[", "[">>) THEN NoMatch
    ELSE LET j == first_in(s, {"|", "]"}, i + 2)
         IN  IF j > i + 2 /\ s[j] = "|"
             THEN LET k == first_in(s, {"|", "]"}, j + 1)
                  IN  IF k > j + 1 /\ at(s, k, <<"]", "]">>)
                      THEN Match(k + 1, SubSeq(s, j + 1, k - 1))
                      ELSE NoMatch
             ELSE IF j > i + 2 /\ at(s, j, <<"]", "]">>)
                  THEN Match(j + 1, SubSeq(s, i + 2, j - 1))
                  ELSE NoMatch

\* r'<[^>]+>' -> ''                              (line 440)
m_any_tag(s, i) ==
    IF ~at(s, i, <<"<">>) THEN NoMatch
    ELSE LET g == first_in(s, {">"}, i + 1)
         IN  IF g > i + 1 THEN Match(g, <<>>) ELSE NoMatch

\* r'\{\{[^}]+\}\}' -> ''                        (line 442)
m_any_template(s, i) ==
    IF m_template_name(s, i).end = 0 THEN NoMatch
    ELSE Match(m_template_name(s, i).end, <<>>)

\* a pattern of the module, named
Pattern(kind) == [kind |-> kind, tag |-> <<>>, replacement |-> <<>>]
TagPattern(tag, replacement) == [kind |-> "tag", tag |-> tag, replacement |-> replacement]

\* the match of a pattern at position i of s
match_at(pattern, s, i) ==
    CASE pattern.kind = "template_value" -> m_template_value(s, i)
      [] pattern.kind = "template_name" -> m_template_name(s, i)
      [] pattern.kind = "wiki_link" -> m_wiki_link(s, i)
      [] pattern.kind = "comment" -> m_comment(s, i)
      [] pattern.kind = "br" -> m_br(s, i)
      [] pattern.kind = "ref" -> m_ref(s, i)
      [] pattern.kind = "ref_named" -> m_ref_named(s, i)
      [] pattern.kind = "html_tag" -> m_html_tag(s, i)
      [] pattern.kind = "nbsp" -> m_nbsp(s, i)
      [] pattern.kind = "tag" -> m_tag(pattern.tag, pattern.replacement, s, i)
      [] pattern.kind = "bare_template" -> m_bare_template(s, i)
      [] pattern.kind = "notes_link" -> m_notes_link(s, i)
      [] pattern.kind = "any_tag" -> m_any_tag(s, i)
      [] pattern.kind = "any_template" -> m_any_template(s, i)

\* re.sub(pattern, repl, s): the matches are replaced from left to right, the
\* search going on behind each match; no pattern of the module matches the
\* empty string
RECURSIVE re_sub_from(_, _, _)
re_sub_match(pattern, s, i, m) ==
    IF m.end = 0
    THEN <<s[i]>> \o re_sub_from(pattern, s, i + 1)
    ELSE m.repl \o re_sub_from(pattern, s, m.end + 1)

re_sub_from(pattern, s, i) ==
    IF i > Len(s) THEN <<>>
    ELSE re_sub_match(pattern, s, i, match_at(pattern, s, i))

re_sub(pattern, s) == re_sub_from(pattern, s, 1)

\* the substitutions of a list of patterns, one after the other
RECURSIVE sub_each(_, _)
sub_each(patterns, s) ==
    IF patterns = <<>> THEN s
    ELSE sub_each(Tail(patterns), re_sub(Head(patterns), s))

----------------------------------------------------------------------------
(* DatabaseMan._clean_wikitext *)

_clean_wikitext(text) ==
    IF text = None \/ text = <<>> THEN <<>>
    ELSE strip(sub_each(<<Pattern("template_value"), Pattern("template_name"),
                          Pattern("wiki_link"), Pattern("comment"), Pattern("br"),
                          Pattern("ref"), Pattern("ref_named"), Pattern("html_tag"),
                          Pattern("nbsp")>>, text))

----------------------------------------------------------------------------
(* DatabaseMan._clean_numerical *)

LeadLetters == {"i", "I", "a", "A", "d", "D", "c", "C", "t", "T"}
TrailLetters == {"a", "A", "d", "D", "c", "C", "t", "T", "g", "G"}

\* re.sub(r'^[iIaAdDcCtT]|[aAdDcCtTgG]$', '', s): the first alternative can
\* match only at the start, the second only the last character, and a
\* one-character string is consumed by whichever alternative matches it.
sub_affixes(s) ==
    LET n == Len(s)
        lead == n >= 1 /\ s[1] \in LeadLetters
        trail == /\ n >= 1
                 /\ s[n] \in TrailLetters
                 /\ (n >= 2 \/ ~lead)
        from == IF lead THEN 2 ELSE 1
        to == IF trail THEN n - 1 ELSE n
    IN  SubSeq(s, from, to)

\* re.sub(r'\(.*\)', '', s): greedy, from the first '(' to the last ')'
\* after it (the text holds no newline, see line 279 and value.strip()).
sub_parens(s) ==
    LET open == find(s, <<"(">>, 1)
        close == rfind(s, <<")">>)
    IN  IF open # 0 /\ close > open
        THEN SubSeq(s, 1, open - 1) \o SubSeq(s, close + 1, Len(s))
        ELSE s

\* re.search(r'[-+]?\d+', s) followed by int(match.group(0))
search_int(s) ==
    LET D == {i \in 1..Len(s) : IsDigit(s[i])}
    IN  IF D = {} THEN Absent
        ELSE LET d == Min(D)
                 stop == Min({j \in d..Len(s) : j = Len(s) \/ ~IsDigit(s[j + 1])})
                 n == digits_value(SubSeq(s, d, stop))
             IN  IF d > 1 /\ s[d - 1] = "-" THEN Some(0 - n) ELSE Some(n)

\* _clean_numerical without line 120 (the split on ',')
clean_numerical_no_comma_split(v) ==
    IF v = None THEN Absent
    ELSE search_int(split_first(sub_parens(sub_affixes(strip(v))), "~"))

\* _clean_numerical without line 118 (the removal of parenthesized content)
clean_numerical_keep_parens(v) ==
    IF v = None THEN Absent
    ELSE search_int(split_first(split_first(sub_affixes(strip(v)), "~"), ","))

_clean_numerical(v) ==
    IF v = None THEN Absent
    ELSE LET cleaned1 == sub_affixes(strip(v))
             cleaned2 == sub_parens(cleaned1)
             cleaned3 == split_first(cleaned2, "~")
             cleaned4 == split_first(cleaned3, ",")
         IN  search_int(cleaned4)

----------------------------------------------------------------------------
(* DatabaseMan._clean_sum_damage *)

\* re.findall(r'\d+', s) summed with int(): the maximal digit runs of s
RECURSIVE sum_digit_runs(_, _)
sum_digit_runs(s, from) ==
    LET d == first_in(s, {"0", "1", "2", "3", "4", "5", "6", "7", "8", "9"}, from)
    IN  IF d = 0 THEN 0
        ELSE LET stop == Min({j \in d..Len(s) : j = Len(s) \/ ~IsDigit(s[j + 1])})
             IN  digits_value(SubSeq(s, d, stop)) + sum_digit_runs(s, stop + 1)

\* a summation that misses a literal at the start of the field
clean_sum_damage_from_second(v) == IF v = None THEN 0 ELSE sum_digit_runs(v, 2)

_clean_sum_damage(v) == IF v = None THEN 0 ELSE sum_digit_runs(v, 1)

----------------------------------------------------------------------------
(* DatabaseMan._clean_notes_string *)

\* re.match(r'\{\{\s*Plainlist\s*\|(.*)\}\}$', s, re.DOTALL | re.IGNORECASE)
\* on a stripped s: group(1).strip() when it matches, s otherwise
unwrap_plainlist(s) ==
    LET j == skip_space(s, 3)
        k == skip_space(s, j + 9)
    IN  IF /\ at(s, 1, <<"{", "{">>)
           /\ at_ci(s, j, <<"p", "l", "a", "i", "n", "l", "i", "s", "t">>)
           /\ at(s, k, <<"|">>)
           /\ Len(s) - 1 >= k + 1
           /\ at(s, Len(s) - 1, <<"}", "}">>)
        THEN strip(SubSeq(s, k + 1, Len(s) - 2))
        ELSE s

\* lines 161-173: specific_tag_replacements, in dict order, tags lower-cased
specific_tag_replacements ==
    << <<<<"h","e","a","t","e","n","g","a","g","e","r">>,
         <<"H","e","a","t"," ","E","n","g","a","g","e","r">>>>,
       <<<<"h","e","a","t","s","m","a","s","h">>,
         <<"H","e","a","t"," ","S","m","a","s","h">>>>,
       <<<<"h","e","a","t","b","u","r","s","t">>,
         <<"H","e","a","t"," ","B","u","r","s","t">>>>,
       <<<<"h","e","a","t","d","a","s","h">>,
         <<"H","e","a","t"," ","D","a","s","h">>>>,
       <<<<"b","b">>, <<"B","a","l","c","o","n","y"," ","B","r","e","a","k">>>>,
       <<<<"w","b">>, <<"W","a","l","l"," ","B","r","e","a","k">>>>,
       <<<<"w","s">>, <<"W","h","i","l","e"," ","S","t","a","n","d","i","n","g">>>>,
       <<<<"f","b">>, <<"F","l","o","o","r"," ","B","r","e","a","k">>>>,
       <<<<"r","e","v","e","r","s","a","l","b","r","e","a","k">>,
         <<"R","e","v","e","r","s","a","l"," ","B","r","e","a","k">>>>,
       <<<<"s","p","i","k","e">>, <<"S","p","i","k","e">>>>,
       <<<<"d","o","t","l","i","s","t">>, <<>>>> >>

\* lines 176-178: the patterns of the replacements, in the order of the loop
tag_patterns ==
    [n \in 1..Len(specific_tag_replacements) |->
        TagPattern(specific_tag_replacements[n][1], specific_tag_replacements[n][2])]

\* s.split('\n')
RECURSIVE split_lines(_)
split_lines(s) ==
    LET n == find(s, <<"\n">>, 1)
    IN  IF n = 0 THEN <<s>>
        ELSE <<SubSeq(s, 1, n - 1)>> \o split_lines(SubSeq(s, n + 1, Len(s)))

\* lines 194-203: one line of the notes, <<>> when it is dropped
clean_line(line) ==
    LET stripped_line == strip(line)
    IN  IF stripped_line = <<>> THEN <<>>
        ELSE IF startswith(stripped_line, <<"*">>) THEN strip(Tail(stripped_line))
        ELSE stripped_line

\* sep.join(filter(None, parts))
RECURSIVE join_nonempty(_, _)
join_nonempty(parts, sep) ==
    IF parts = <<>> THEN <<>>
    ELSE LET rest == join_nonempty(Tail(parts), sep)
         IN  IF Head(parts) = <<>> THEN rest
             ELSE IF rest = <<>> THEN Head(parts)
             ELSE Head(parts) \o sep \o rest

\* lines 193-205: the lines cleaned and the non-empty ones joined
join_cleaned(lines) ==
    join_nonempty([i \in 1..Len(lines) |-> clean_line(lines[i])], <<";", " ">>)

_clean_notes_string(notes_text) ==
    IF notes_text = None \/ notes_text = <<>> THEN <<>>
    ELSE join_cleaned(split_lines(
             sub_each(tag_patterns \o
                      <<Pattern("bare_template"), Pattern("template_value"),
                        Pattern("notes_link"), Pattern("comment"), Pattern("br"),
                        Pattern("ref"), Pattern("ref_named")>>,
                      unwrap_plainlist(strip(notes_text)))))

----------------------------------------------------------------------------
(* dict, with Python's insertion order kept beside it *)

EmptyDict == [k \in {} |-> <<>>]

\* d.get(k, default)
Get(d, k, default) == IF k \in DOMAIN d THEN d[k] ELSE default

\* a dict that keeps the value a key already has
set_key_unless_present(d, k, v) ==
    [x \in (DOMAIN d) \cup {k} |-> IF x \in DOMAIN d THEN d[x] ELSE v]

\* d[k] = v
SetKey(d, k, v) == [x \in (DOMAIN d) \cup {k} |-> IF x = k THEN v ELSE d[x]]

\* position of a key in the insertion order: an overwritten key keeps its place
InOrder(order, k) == \E i \in 1..Len(order) : order[i] = k
AddKey(order, k) == IF InOrder(order, k) THEN order ELSE Append(order, k)

----------------------------------------------------------------------------
(* DatabaseMan._parse_move_table, Step 1: the maps of one document *)

\* lines 239-250: one (parent, child) pair of groups of the MoveInherit regex
inherit_entry(map, groups) ==
    LET parent_id == strip(groups[1])
        child_id == IF groups[2] # <<>> THEN strip(groups[2]) ELSE <<>>
    IN  IF parent_id # <<>> /\ child_id # <<>>
        THEN SetKey(map, child_id, parent_id)
        ELSE IF parent_id # <<>>
             THEN SetKey(map, <<"G", "e", "n", "e", "r", "i", "c", "-">> \o parent_id,
                         parent_id)
             ELSE map

\* lines 259-266: the stub registered for one MoveQuery reference
query_stub(query_id) ==
    LET dash == rfind(query_id, <<"-">>)
    IN  [id |-> query_id,
         input |-> IF dash # 0 THEN SubSeq(query_id, dash + 1, Len(query_id)) ELSE <<>>,
         name |-> <<"R", "e", "f", "e", "r", "e", "n", "c", "e", "d", " ",
                    "M", "o", "v", "e", " ">> \o query_id,
         referenced |-> <<"True">>]

\* line 279: re.sub(r'\n', ' ', template_content)
collapse_newlines(s) == [i \in 1..Len(s) |-> IF s[i] = "\n" THEN " " ELSE s[i]]

\* lines 282-284: the locals of the scan before its first character
ScanStart == [params |-> <<>>, current_param |-> <<>>, brace_level |-> 0]

\* a scan that splits at every '|'
scan_char_ignoring_depth(st, char) ==
    IF char = "|"
    THEN [params |-> Append(st.params, strip(st.current_param)),
          current_param |-> <<>>,
          brace_level |-> st.brace_level]
    ELSE [params |-> st.params,
          current_param |-> Append(st.current_param, char),
          brace_level |-> IF char = "{" THEN st.brace_level + 1
                          ELSE IF char = "}" THEN Max({0, st.brace_level - 1})
                          ELSE st.brace_level]

\* lines 286-294: one iteration of the loop over the characters
scan_char(st, char) ==
    IF st.brace_level = 0 /\ char = "|"
    THEN [params |-> Append(st.params, strip(st.current_param)),
          current_param |-> <<>>,
          brace_level |-> st.brace_level]
    ELSE [params |-> st.params,
          current_param |-> Append(st.current_param, char),
          brace_level |-> IF char = "{" THEN st.brace_level + 1
                          ELSE IF char = "}" THEN Max({0, st.brace_level - 1})
                          ELSE st.brace_level]

\* lines 296-297: the last parameter is added when it is not empty
scan_end(st) ==
    IF st.current_param # <<>>
    THEN Append(st.params, strip(st.current_param))
    ELSE st.params

\* lines 286-294: the loop from position i on
RECURSIVE scan_from(_, _, _)
scan_from(content, i, st) ==
    IF i > Len(content) THEN st
    ELSE scan_from(content, i + 1, scan_char(st, content[i]))

\* lines 279-297: the parameters of one template
split_params(content) == scan_end(scan_from(collapse_newlines(content), 1, ScanStart))

\* line 301: '=' in param
has_equals(param) == contains(param, <<"=">>)

\* the keys the function reads (lines 316-523), as characters and as the
\* names that the parameter dicts of the model use
KeyNames ==
    {<<<<"i", "d">>, "id">>, <<<<"p", "a", "r", "e", "n", "t">>, "parent">>, <<<<"i", "n", "p", "u", "t">>, "input">>} \cup
      {<<<<"n", "o", "t", "e", "s">>, "notes">>, <<<<"n", "a", "m", "e">>, "name">>, <<<<"n", "u", "m">>, "num">>} \cup
      {<<<<"t", "a", "r", "g", "e", "t">>, "target">>, <<<<"s", "t", "a", "r", "t", "u", "p">>, "startup">>, <<<<"d", "a", "m", "a", "g", "e">>, "damage">>} \cup
      {<<<<"b", "l", "o", "c", "k">>, "block">>, <<<<"h", "i", "t">>, "hit">>, <<<<"c", "h">>, "ch">>} \cup
      {<<<<"r", "e", "f", "e", "r", "e", "n", "c", "e", "d">>, "referenced">>}

\* the name of a key; every key the function never reads is named "-"
key_name(key) ==
    IF \E kn \in KeyNames : kn[1] = key
    THEN (CHOOSE kn \in KeyNames : kn[1] = key)[2]
    ELSE "-"

\* lines 303-308: key and value of a parameter that holds '='
key_value(param, eq) ==
    <<key_name(lower(strip(SubSeq(param, 1, eq - 1)))),
      strip(SubSeq(param, eq + 1, Len(param)))>>

\* the parameters split at their last '='
pairs_of_last_equals(with_equals) ==
    [i \in 1..Len(with_equals) |->
        key_value(with_equals[i], rfind(with_equals[i], <<"=">>))]

\* lines 300-308: the (key, value) pairs of the parameters, in their order
pairs_of(with_equals) ==
    [i \in 1..Len(with_equals) |->
        key_value(with_equals[i], find(with_equals[i], <<"=">>, 1))]

\* lines 279-308: the (key, value) pairs of one template
template_pairs(content) == pairs_of(SelectSeq(split_params(content), has_equals))

\* a template is stored whatever its id
stored_always(move_id) == TRUE

\* line 313: if move_id
stored(move_id) == move_id # <<>>

\* lines 300-311: the key/value pairs of one template, a later pair with the
\* same key overwriting an earlier one
parsed_params_of(pairs) ==
    [k \in {pairs[i][1] : i \in 1..Len(pairs)} |->
        pairs[Max({i \in 1..Len(pairs) : pairs[i][1] = k})][2]]

----------------------------------------------------------------------------
(* DatabaseMan._parse_move_table, Step 2: roots and the walk *)

\* line 330: move_data.get('referenced', False)
is_referenced(parsed_params) == Get(parsed_params, "referenced", <<>>) # <<>>

\* lines 329-340: a stub copies the parameters of a concrete move stored
\* under the same key
resolve_references(moves, order) ==
    [move_id \in DOMAIN moves |->
        IF is_referenced(moves[move_id])
        THEN LET found == {i \in 1..Len(order) :
                              /\ ~is_referenced(moves[order[i]])
                              /\ order[i] = move_id}
             IN  IF found = {} THEN moves[move_id]
                 ELSE LET other == moves[order[Min(found)]]
                      IN  [k \in (DOMAIN moves[move_id]) \cup ((DOMAIN other) \ {"id"}) |->
                              IF k \in DOMAIN moves[move_id]
                              THEN moves[move_id][k] ELSE other[k]]
        ELSE moves[move_id]]

\* a loop over the roots that takes every move for a root
has_parent_ignored(parsed_params) == FALSE

\* line 345: 'parent' in root_params and root_params['parent']
has_parent(parsed_params) == "parent" \in DOMAIN parsed_params /\ parsed_params["parent"] # <<>>

\* a walk that takes the last of the moves whose parent is current
children_of_last_only(moves, order, current) ==
    LET found == {i \in 1..Len(order) : Get(moves[order[i]], "parent", None) = current}
    IN  IF found = {} THEN {} ELSE {Max(found)}

\* lines 357-358: the positions, in dict order, of the moves whose parent is
\* current; the walk takes the first
children_of(moves, order, current) ==
    {i \in 1..Len(order) : Get(moves[order[i]], "parent", None) = current}

\* a walk that puts a ',' in front of every non-empty fragment
child_fragment_always_prefixed(child_params) ==
    LET child_input == Get(child_params, "input", <<>>)
    IN  IF child_input # <<>> THEN <<",">> \o strip(child_input) ELSE child_input

\* lines 361-380: the fragment a child contributes to the command
child_fragment(child_params) ==
    LET child_input == Get(child_params, "input", <<>>)
    IN  IF child_input # <<>>
        THEN LET stripped == strip(child_input)
             IN  IF stripped # <<>> /\ ~startswith(stripped, <<",">>)
                 THEN <<",">> \o stripped
                 ELSE IF stripped = <<",">> THEN stripped
                 ELSE IF startswith(stripped, <<",">>) THEN stripped
                 ELSE <<>>
        ELSE child_input

\* lines 413-416: the command before markup cleaning
full_command_of(parts) ==
    LET full_command == join_all(parts)
    IN  IF full_command # <<>> /\ startswith(full_command, <<",">>)
        THEN strip(Tail(full_command))
        ELSE full_command

----------------------------------------------------------------------------
(* DatabaseMan._parse_move_table: the fields of one record *)

\* int(s) inside try/except (lines 424-425): Absent when int() raises
int_or_absent(s) ==
    LET t == strip(s)
        signed == t # <<>> /\ t[1] \in {"+", "-"}
        body == IF signed THEN Tail(t) ELSE t
        wellformed ==
            /\ body # <<>>
            /\ \A i \in 1..Len(body) : IsDigit(body[i]) \/ body[i] = "_"
            /\ body[1] # "_" /\ body[Len(body)] # "_"
            /\ \A i \in 1..(Len(body) - 1) : ~(body[i] = "_" /\ body[i + 1] = "_")
        magnitude == digits_value(SelectSeq(body, IsDigit))
    IN  IF ~wellformed THEN Absent
        ELSE IF signed /\ t[1] = "-" THEN Some(0 - magnitude) ELSE Some(magnitude)

\* lines 430-443
hit_level_of(parsed_params) ==
    LET target == Get(parsed_params, "target", <<>>)
        h1 == IF target # <<>> /\ startswith(target, <<",">>)
              THEN strip(Tail(target)) ELSE target
    IN  strip(IF h1 # <<>>
              THEN sub_each(<<Pattern("wiki_link"), Pattern("any_tag"),
                              Pattern("any_template")>>, h1)
              ELSE h1)

\* re.search(r'(\d+)', s) and int(): the first digit run, Absent without one
search_digits(s) ==
    LET d == first_in(s, {"0", "1", "2", "3", "4", "5", "6", "7", "8", "9"}, 1)
    IN  IF d = 0 THEN Absent
        ELSE LET stop == Min({j \in d..Len(s) : j = Len(s) \/ ~IsDigit(s[j + 1])})
             IN  Some(digits_value(SubSeq(s, d, stop)))

\* an Impact that is 0 when the final hit has no startup
impact_of_zero_default(raw_startup) ==
    IF raw_startup = <<>> THEN Some(0)
    ELSE IF startswith(lower(raw_startup), <<"i">>)
         THEN search_digits(Tail(raw_startup))
         ELSE search_digits(raw_startup)

\* lines 446-463
impact_of(raw_startup) ==
    IF raw_startup = <<>> THEN Absent
    ELSE IF startswith(lower(raw_startup), <<"i">>)
         THEN search_digits(Tail(raw_startup))
         ELSE search_digits(raw_startup)

\* s.split(sep, 1)[1].strip(), sep occurring in s
after_first(s, sep) ==
    strip(SubSeq(s, find(s, sep, 1) + Len(sep), Len(s)))

\* re.search(r'\[\[(.*?)\]\]', s): the position of the '[[' of the leftmost
\* match and of its ']]'; <<0, 0>> when nothing matches
search_link(s) ==
    LET Starts == {i \in 1..Len(s) :
                      /\ at(s, i, <<"[", "[">>)
                      /\ LET e == find(s, <<"]", "]">>, i + 2)
                         IN  e # 0 /\ \A x \in (i + 2)..(e - 1) : s[x] # "\n"}
    IN  IF Starts = {} THEN <<0, 0>>
        ELSE <<Min(Starts), find(s, <<"]", "]">>, Min(Starts) + 2)>>

Staples == <<"B","r","y","a","n"," ","c","o","m","b","o","s","#","S","t","a","p","l","e","s">>
WallCombos == <<"B","r","y","a","n"," ","c","o","m","b","o","s","#","W","a","l","l">>
MiniCombos == <<"B","r","y","a","n"," ","c","o","m","b","o","s","#",
                "M","i","n","i","-","c","o","m","b","o","s">>

\* lines 475-513: the display text of the hit field
hit_val_clean_of(hit_val) ==
    IF contains(hit_val, <<"[", "[">>) /\ ~contains(hit_val, <<"]", "]">>)
    THEN LET link_content ==
                 strip(SubSeq(hit_val, find(hit_val, <<"[", "[">>, 1) + 2, Len(hit_val)))
         IN  IF contains(link_content, Staples)
             THEN <<"+", "3", "5", "a", " ", "(", "+", "2", "5", ")">>
             ELSE IF contains(link_content, WallCombos)
             THEN <<"+", "3", "5", "a", " ", "(", "+", "2", "5", ")">>
             ELSE IF contains(link_content, MiniCombos)
             THEN <<"+", "1", "4", "a">>
             ELSE <<"+", "0">>
    ELSE IF contains(hit_val, <<"[", "[">>) /\ contains(hit_val, <<"]", "]">>)
    THEN LET link_match == search_link(hit_val)
         IN  IF link_match[1] = 0 THEN hit_val
             ELSE LET link_content ==
                          SubSeq(hit_val, link_match[1] + 2, link_match[2] - 1)
                  IN  IF contains(link_content, <<"|">>)
                      THEN after_first(link_content, <<"|">>)
                      ELSE IF find(hit_val, <<"]", "]">>, 1) + 1 < Len(hit_val)
                      THEN after_first(hit_val, <<"]", "]">>)
                      ELSE IF \/ contains(link_content, <<"S","t","a","p","l","e","s">>)
                              \/ contains(link_content, <<"W","a","l","l">>)
                      THEN <<"+", "3", "5", "a", " ", "(", "+", "2", "5", ")">>
                      ELSE <<"+", "0">>
    ELSE re_sub(Pattern("wiki_link"), hit_val)

\* lines 526-564: the display text of the counter-hit field
ch_val_clean_of(ch_val) ==
    IF contains(ch_val, <<"[", "[">>) /\ ~contains(ch_val, <<"]", "]">>)
    THEN LET link_content ==
                 strip(SubSeq(ch_val, find(ch_val, <<"[", "[">>, 1) + 2, Len(ch_val)))
         IN  IF contains(link_content, Staples) THEN <<"+", "6", "5", "a">>
             ELSE IF contains(link_content, MiniCombos) THEN <<"+", "1", "4", "a">>
             ELSE <<"+", "0">>
    ELSE IF contains(ch_val, <<"[", "[">>) /\ contains(ch_val, <<"]", "]">>)
    THEN LET link_match == search_link(ch_val)
         IN  IF link_match[1] = 0 THEN ch_val
             ELSE LET link_content ==
                          SubSeq(ch_val, link_match[1] + 2, link_match[2] - 1)
                  IN  IF contains(link_content, <<"|">>)
                      THEN after_first(link_content, <<"|">>)
                      ELSE IF find(ch_val, <<"]", "]">>, 1) + 1 < Len(ch_val)
                      THEN after_first(ch_val, <<"]", "]">>)
                      ELSE IF contains(link_content, Staples) THEN <<"+", "6", "5", "a">>
                      ELSE IF contains(link_content, MiniCombos) THEN <<"+", "1", "4", "a">>
                      ELSE <<"+", "0">>
    ELSE re_sub(Pattern("wiki_link"), ch_val)

\* the code points of the characters of the model, in increasing order
CodeOrder ==
    <<"\t", "\n", "\r", " ", "!", "\"", "#", "$", "%", "&", "'", "(", ")", "*", "+",
      ",", "-", ".", "/", "0", "1", "2", "3", "4", "5", "6", "7", "8", "9", ":",
      ";", "<", "=", ">", "?", "@",
      "A", "B", "C", "D", "E", "F", "G", "H", "I", "J", "K", "L", "M",
      "N", "O", "P", "Q", "R", "S", "T", "U", "V", "W", "X", "Y", "Z",
      "[", "\\", "]", "^", "_",
      "a", "b", "c", "d", "e", "f", "g", "h", "i", "j", "k", "l", "m",
      "n", "o", "p", "q", "r", "s", "t", "u", "v", "w", "x", "y", "z",
      "{", "|", "}", "~">>

\* ord(c)
Ord(c) == CHOOSE i \in 1..Len(CodeOrder) : CodeOrder[i] = c

\* a < b for str
RECURSIVE str_less(_, _)
str_less(a, b) ==
    IF b = <<>> THEN FALSE
    ELSE IF a = <<>> THEN TRUE
    ELSE IF Head(a) = Head(b) THEN str_less(Tail(a), Tail(b))
    ELSE Ord(Head(a)) < Ord(Head(b))

\* sorted(list(S)) for a set of str
RECURSIVE sorted(_)
sorted(S) ==
    IF S = {} THEN <<>>
    ELSE LET least == CHOOSE a \in S : \A b \in S \ {a} : str_less(a, b)
         IN  <<least>> \o sorted(S \ {least})

\* lines 574-579
notes_of(notes_raw) ==
    LET cleaned == {_clean_notes_string(notes_raw[i]) : i \in 1..Len(notes_raw)}
    IN  join_nonempty(sorted(cleaned \ {<<>>}), <<";", " ">>)

\* s.split(',')
RECURSIVE split_commas(_)
split_commas(s) ==
    LET n == find(s, <<",">>, 1)
    IN  IF n = 0 THEN <<s>>
        ELSE <<SubSeq(s, 1, n - 1)>> \o split_commas(SubSeq(s, n + 1, Len(s)))

\* token in s
has_token_as_substring(s, token) == contains(s, token)

\* token in s.split(',')
has_token(s, token) ==
    \E i \in 1..Len(split_commas(s)) : split_commas(s)[i] = token

Flag(b) == IF b THEN 1 ELSE 0

\* lines 475-523 and 526-572: the text and the number of the hit field or of
\* the counter-hit field, from the raw value and its display text
display_of(val, val_clean) == IF val # <<>> THEN strip(val_clean) ELSE <<>>
dec_of(val, val_clean) == IF val # <<>> THEN _clean_numerical(val_clean) ELSE Absent

\* lines 581-599: the record, from the values the lines before it computed
record_of(root_params, final_hit_params, command, hit_level, raw_startup, hit_val, hit_val_clean, ch_val, ch_val_clean, notes, notes_lower, hit_level_lower) ==
    [ID |-> Absent,
     WavuID |-> int_or_absent(Get(root_params, "num", <<>>)),
     Command |-> command,
     Character |-> None,
     CharacterID |-> Absent,
     MoveCategory |-> None,
     MoveName |-> _clean_wikitext(Get(root_params, "name", <<>>)),
     Stance |-> None,
     HitLevel |-> hit_level,
     Impact |-> impact_of(raw_startup),
     ImpactRaw |-> raw_startup,
     Damage |-> _clean_wikitext(Get(final_hit_params, "damage", <<>>)),
     DamageDec |-> _clean_sum_damage(Get(final_hit_params, "damage", None)),
     Block |-> _clean_wikitext(Get(final_hit_params, "block", <<>>)),
     BlockDec |-> _clean_numerical(Get(final_hit_params, "block", None)),
     Hit |-> display_of(hit_val, hit_val_clean),
     HitDec |-> dec_of(hit_val, hit_val_clean),
     CounterHit |-> display_of(ch_val, ch_val_clean),
     CounterHitDec |-> dec_of(ch_val, ch_val_clean),
     GuardBurst |-> Flag(\/ contains(notes_lower, <<"g","u","a","r","d"," ","b","r","e","a","k">>)
                         \/ contains(notes_lower, <<"g","u","a","r","d"," ","c","r","u","s","h">>)),
     Notes |-> notes,
     isGI |-> 0,
     isUB |-> Flag(has_token(hit_level_lower, <<"u", "b">>)),
     isLH |-> 0,
     isSS |-> 0,
     isBA |-> Flag(\/ contains(notes_lower, <<"p","o","w","e","r"," ","c","r","u","s","h">>)
                   \/ contains(notes_lower, <<"a","r","m","o","r">>)),
     isTH |-> Flag(has_token(hit_level_lower, <<"t">>)),
     isRE |-> 0,
     isHE |-> Flag(contains(notes_lower, <<"h","e","a","t"," ","e","n","g","a","g","e","r">>)),
     isHS |-> Flag(contains(notes_lower, <<"h","e","a","t"," ","s","m","a","s","h">>)),
     isHB |-> Flag(contains(notes_lower, <<"h","e","a","t"," ","b","u","r","s","t">>)),
     isSM |-> Flag(has_token(hit_level_lower, <<"s", "m">>)),
     isUnparryable |-> Flag(contains(hit_level_lower, <<"!">>)),
     isHoming |-> Flag(contains(notes_lower, <<"h","o","m","i","n","g">>))]

\* lines 430-579: the values of the raw fields, handed to the cleaning
with_cleaned(root_params, final_hit_params, command, hit_level, raw_startup, hit_val, ch_val, notes) ==
    record_of(root_params, final_hit_params, command, hit_level, raw_startup,
              hit_val, hit_val_clean_of(hit_val), ch_val, ch_val_clean_of(ch_val),
              notes, lower(notes), lower(hit_level))

\* a record whose frame data are read from the root of the chain
build_record_from_root(root_params, final_hit_params, command_parts, notes_raw) ==
    with_cleaned(root_params, root_params,
                 _clean_wikitext(full_command_of(command_parts)),
                 hit_level_of(root_params),
                 Get(root_params, "startup", <<>>),
                 Get(root_params, "hit", <<>>),
                 Get(root_params, "ch", <<>>),
                 notes_of(notes_raw))

\* lines 401-599: the record of one chain, from the parameters of its root
\* and of its final hit and what the walk collected
build_record(root_params, final_hit_params, command_parts, notes_raw) ==
    with_cleaned(root_params, final_hit_params,
                 _clean_wikitext(full_command_of(command_parts)),
                 hit_level_of(final_hit_params),
                 Get(final_hit_params, "startup", <<>>),
                 Get(final_hit_params, "hit", <<>>),
                 Get(final_hit_params, "ch", <<>>),
                 notes_of(notes_raw))

----------------------------------------------------------------------------
(* The documents of the model.  A document is what the three re.findall    *)
(* calls of lines 231-254 hand to the rest of the function: the Move       *)
(* templates as lists of (key, value) pairs (keys lower-cased and values   *)
(* stripped, as lines 304-308 leave them), the group pairs of the          *)
(* MoveInherit occurrences and the texts of the MoveQuery occurrences.     *)

DigitChar(k) == <<"0", "1", "2", "3", "4", "5", "6", "7", "8", "9">>[k + 1]

\* the identifier of the k-th template, and one that no template defines
IdOf(k) == <<"a", DigitChar(k)>>
Undefined == <<"z", "z">>
NoParent == <<"-", "-">>

Document(moves, inherits, queries) ==
    [moves |-> moves, inherits |-> inherits, queries |-> queries]

\* a document whose templates are given as the text the Move regex captures
\* (line 232), still to be split into parameters
RawDocument(contents) ==
    [moves |-> contents, inherits |-> <<>>, queries |-> <<>>, raw |-> TRUE]

\* the frame data of the k-th template, different for every k
FrameData(k) ==
    << <<"name", <<"N", DigitChar(k)>>>>,
       <<"num", <<DigitChar(k), "0">>>>,
       <<"target", <<<<"h">>, <<"m">>, <<"l">>, <<"m", ",", "t">>, <<"h", "!">>>>[k]>>,
       <<"startup", <<"i", "1", DigitChar(k)>>>>,
       <<"damage", <<DigitChar(k), "0", ",", DigitChar(k)>>>>,
       <<"block", <<"-", DigitChar(k)>>>>,
       <<"hit", <<"+", DigitChar(k)>>>>,
       <<"ch", <<"+", "1", DigitChar(k), "a">>>>,
       <<"notes", <<"*", "n", DigitChar(k)>>>> >>

ParentPair(parent) ==
    IF parent = NoParent THEN <<>> ELSE << <<"parent", parent>> >>

\* documents of n templates a1..an, each with any parent (none, any of the
\* identifiers, itself included, or an undefined one); frame data are given
\* by none of the templates, by all, by the first only or by all but the first
WalkDocuments ==
    UNION {
        { Document([k \in 1..n |->
                        << <<"id", IdOf(k)>>, <<"input", <<DigitChar(k)>>>> >>
                        \o ParentPair(parent[k])
                        \o (IF k \in full THEN FrameData(k) ELSE <<>>)],
                   <<>>, <<>>)
          : parent \in [1..n -> {NoParent, Undefined} \cup {IdOf(j) : j \in 1..n}],
            full \in {{}, 1..n, {1}, 2..n} }
        : n \in 1..MaxMoves }

Fragments ==
    { <<>>, <<"1">>, <<",", "2">>, <<",">>, <<"1", "+", "2">>, <<",", " ", "3">> }

\* documents of n templates with any of the command fragments as input:
\* either every template is the child of the one before it (an empty input
\* being left out), or every template is a root
CommandDocuments ==
    UNION {
        { Document([k \in 1..n |->
                        << <<"id", IdOf(k)>> >>
                        \o (IF k > 1 /\ linked THEN ParentPair(IdOf(k - 1)) ELSE <<>>)
                        \o (IF input[k] = <<>> /\ linked THEN <<>>
                            ELSE << <<"input", input[k]>> >>)],
                   <<>>, <<>>)
          : input \in [1..n -> Fragments], linked \in BOOLEAN }
        : n \in 1..MaxMoves }

\* documents of two templates and one or two MoveInherit occurrences
InheritGroups ==
    {<<p, c>> : p \in {IdOf(1), IdOf(2), Undefined, <<>>},
                c \in {<<>>, IdOf(1), IdOf(2)}}

InheritDocuments ==
    { Document(<< << <<"id", IdOf(1)>>, <<"input", <<"1">>>> >>,
                  << <<"id", IdOf(2)>>, <<"input", <<"2">>>> >> \o ParentPair(parent) >>,
               inherits, <<>>)
      : parent \in {NoParent, IdOf(1), <<>>},
        inherits \in {<<g>> : g \in InheritGroups}
                     \cup {<<g, h>> : g \in InheritGroups, h \in InheritGroups} }

\* documents with MoveQuery references (the reference may be empty, and so
\* may the parent parameter of a template) and at most two templates
QueryIds == {IdOf(1), IdOf(2), <<"q", "-", "1">>, <<>>}

QueryDocuments ==
    { Document(moves, <<>>, queries)
      : moves \in { <<>>,
                    << << <<"id", IdOf(1)>>, <<"input", <<"1">>>> >> >>,
                    << << <<"id", IdOf(2)>>, <<"input", <<"2">>>>,
                          <<"parent", IdOf(1)>> >> >>,
                    << << <<"id", IdOf(1)>>, <<"input", <<"1">>>> >>,
                       << <<"id", IdOf(2)>>, <<"input", <<"2">>>>,
                          <<"parent", <<"q", "-", "1">>>> >> >>,
                    << << <<"id", IdOf(1)>>, <<"input", <<"1">>>>,
                          <<"parent", <<>>>> >> >>,
                    << << <<"id", IdOf(1)>>, <<"input", <<"1">>>>,
                          <<"parent", <<>>>> >>,
                       << <<"id", IdOf(2)>>, <<"input", <<"2">>>>,
                          <<"parent", IdOf(1)>> >> >> },
        queries \in {<<>>} \cup {<<a>> : a \in QueryIds}
                    \cup {<<a, b>> : a \in QueryIds, b \in QueryIds} }

\* the end-to-end scenario of the documentation: a root a1 and a template a2
\* that inherits from it
ScenarioDocument ==
    Document(<< << <<"id", <<"a", "1">>>>,
                   <<"input", <<"1">>>>,
                   <<"target", <<"h">>>>,
                   <<"startup", <<"i", "1", "0">>>>,
                   <<"damage", <<"1", "0">>>>,
                   <<"notes", <<"*", "f", "i", "r", "s", "t", " ", "h", "i", "t">>>> >>,
                << <<"id", <<"a", "2">>>>,
                   <<"parent", <<"a", "1">>>>,
                   <<"input", <<",", "2">>>>,
                   <<"damage", <<"5">>>>,
                   <<"notes", <<"*", "s", "e", "c", "o", "n", "d", " ",
                                "h", "i", "t">>>> >> >>,
             <<>>, <<>>)

\* "1+2" followed by "1", the command example of the documentation
CommandExampleDocument ==
    Document(<< << <<"id", <<"a", "1">>>>, <<"input", <<"1", "+", "2">>>> >>,
                << <<"id", <<"a", "2">>>>, <<"parent", <<"a", "1">>>>,
                   <<"input", <<"1">>>> >> >>,
             <<>>, <<>>)

\* the text of the k-th template between "{{Move|" and "}}"
RawMove(k, parent, notes) ==
    <<"i", "d", "=">> \o IdOf(k)
        \o (IF parent = NoParent THEN <<>>
            ELSE <<"|", "p", "a", "r", "e", "n", "t", "=">> \o parent)
        \o (IF notes = NoParent THEN <<>>
            ELSE <<"|", "n", "o", "t", "e", "s", "=">> \o notes)

\* the notes parameter of a template: absent, one line, or a list of two items
NoteTexts ==
    { NoParent,
      <<"b">>,
      <<"*", " ", "a">>,
      <<"\n", "*", " ", "b", "\n", "*", " ", "a">>,
      <<"\n", "*", " ", "a", "\n", "*", " ", "b">>,
      <<"\n", "*", " ", "b", "\n", "*", " ", "b">> }

\* documents of one template, or of a root and its child, with notes as the
\* wiki writes them
NotesDocuments ==
    { RawDocument(<<RawMove(1, NoParent, n)>>) : n \in NoteTexts }
        \cup { RawDocument(<<RawMove(1, NoParent, n), RawMove(2, IdOf(1), m)>>)
               : n \in NoteTexts, m \in NoteTexts }

\* hit levels with and without the throw, unblockable, special-mid and
\* unparryable markers, as tokens and inside longer tokens
HitLevels ==
    { <<"m", ",", "t">>,
      <<"t">>,
      <<"M", ",", "T">>,
      <<"t", "h">>,
      <<"m", ",", " ", "t">>,
      <<"u", "b">>,
      <<"h", ",", "u", "b">>,
      <<"s", "u", "b">>,
      <<"s", "m">>,
      <<"s", "m", ",", "h">>,
      <<"s", "m", "h">>,
      <<"h", "!">>,
      <<"!">>,
      <<"m">> }

\* notes with and without the texts that lines 592-597 look for
NoteMarkers ==
    { <<"P", "o", "w", "e", "r", " ", "C", "r", "u", "s", "h">>,
      <<"a", "r", "m", "o", "r">>,
      <<"H", "e", "a", "t", " ", "E", "n", "g", "a", "g", "e", "r">>,
      <<"H", "e", "a", "t", " ", "S", "m", "a", "s", "h">>,
      <<"H", "e", "a", "t", " ", "B", "u", "r", "s", "t">>,
      <<"H", "o", "m", "i", "n", "g">>,
      <<"G", "u", "a", "r", "d", " ", "B", "r", "e", "a", "k">>,
      <<"g", "u", "a", "r", "d", " ", "c", "r", "u", "s", "h">>,
      <<"H", "o", "m", "i", "n", "g", " ", "a", "r", "m", "o", "r">>,
      <<"t", "o", "r", "n", "a", "d", "o">> }

\* documents of one template with a hit level or with notes
FlagDocuments ==
    { Document(<< << <<"id", IdOf(1)>>, <<"target", t>> >> >>, <<>>, <<>>)
      : t \in HitLevels }
        \cup { Document(<< << <<"id", IdOf(1)>>, <<"notes", n>> >> >>, <<>>, <<>>)
               : n \in NoteMarkers }

\* the command example with two templates more: one without an id parameter
\* before a1, and one with an empty id between a1 and a2 that names a1 as
\* its parent
MalformedDocument ==
    Document(<< << <<"input", <<"7">>>>, <<"name", <<"N", "7">>>>,
                   <<"notes", <<"*", "n", "7">>>> >>,
                CommandExampleDocument.moves[1],
                << <<"id", <<>>>>, <<"parent", <<"a", "1">>>>,
                   <<"input", <<",", "7">>>>, <<"damage", <<"7">>>>,
                   <<"notes", <<"*", "n", "7">>>> >>,
                CommandExampleDocument.moves[2] >>,
             <<>>, <<>>)

\* a MoveInherit occurrence that names the parent a1 and no child, before
\* the templates a1 and Generic-a1
GenericDocument ==
    Document(<< << <<"id", IdOf(1)>>, <<"input", <<"1">>>> >>,
                << <<"id", <<"G", "e", "n", "e", "r", "i", "c", "-">> \o IdOf(1)>>,
                   <<"input", <<"2">>>> >> >>,
             << <<IdOf(1), <<>>>> >>, <<>>)

\* a template a1 whose every parameter holds the digit 9
EarlierOccurrence(parent) ==
    << <<"id", IdOf(1)>>,
       <<"input", <<"9">>>>,
       <<"name", <<"N", "9">>>>,
       <<"num", <<"9", "0">>>>,
       <<"target", <<"9">>>>,
       <<"startup", <<"i", "1", "9">>>>,
       <<"damage", <<"9", "0">>>>,
       <<"block", <<"-", "9">>>>,
       <<"hit", <<"+", "9">>>>,
       <<"ch", <<"+", "1", "9">>>>,
       <<"notes", <<"*", "n", "9">>>> >> \o ParentPair(parent)

\* documents with two templates a1, the later one with no, some or all
\* parameters, and with or without a child a2 of a1 between or after them
DuplicateDocuments ==
    { Document(<<EarlierOccurrence(parent)>> \o between
                   \o << << <<"id", IdOf(1)>> >> \o later >> \o after,
               <<>>, <<>>)
      : parent \in {NoParent, IdOf(2)},
        later \in { <<>>, << <<"input", <<"1">>>> >>, FrameData(1) },
        between \in { <<>>, << << <<"id", IdOf(2)>>, <<"parent", IdOf(1)>>,
                                  <<"input", <<"2">>>> >> >> },
        after \in { <<>>, << << <<"id", IdOf(3)>>, <<"parent", IdOf(1)>>,
                                <<"input", <<"3">>>> >> >> } }

\* parameters with no, one or several '=', with capitals and blanks around
\* the key, with an empty key or value, and the empty parameter
ParamTexts ==
    { <<"x">>,
      <<"i", "n", "p", "u", "t", "=", "1", "=", "2">>,
      <<"I", "N", "P", "U", "T", " ", "=", " ", "3">>,
      <<"n", "a", "m", "e", "=">>,
      <<"=", "5">>,
      <<"n", "o", "t", "e", "s", "=", "a", "=", "b", "=", "c">>,
      <<>> }

\* documents of one template given as text: an id parameter followed by at
\* most two of the parameters above
KeyValueDocuments ==
    { RawDocument(<<id \o rest>>)
      : id \in {<<"i", "d", "=", "a", "1">>, <<"I", "D", " ", "=", " ", "a", "1">>},
        rest \in {<<>>} \cup {<<"|">> \o p : p \in ParamTexts}
                  \cup {<<"|">> \o p \o <<"|">> \o q : p \in ParamTexts, q \in ParamTexts} }

\* hit and counter-hit fields: links without their closing brackets and
\* complete links without a pipe, to the three fragments that lines 481-485
\* know and to another page, and a field without a link
LinkFields ==
    { <<"[", "[", "B", "r", "y", "a", "n", " ", "c", "o", "m", "b", "o", "s", "#", "S", "t", "a", "p", "l", "e", "s">>,
      <<"[", "[", "B", "r", "y", "a", "n", " ", "c", "o", "m", "b", "o", "s", "#", "S", "t", "a", "p", "l", "e", "s", "]", "]">>,
      <<"[", "[", "B", "r", "y", "a", "n", " ", "c", "o", "m", "b", "o", "s", "#", "W", "a", "l", "l">>,
      <<"[", "[", "B", "r", "y", "a", "n", " ", "c", "o", "m", "b", "o", "s", "#", "W", "a", "l", "l", "]", "]">>,
      <<"[", "[", "B", "r", "y", "a", "n", " ", "c", "o", "m", "b", "o", "s", "#", "M", "i", "n", "i", "-", "c", "o", "m", "b", "o", "s">>,
      <<"[", "[", "B", "r", "y", "a", "n", " ", "c", "o", "m", "b", "o", "s", "#", "M", "i", "n", "i", "-", "c", "o", "m", "b", "o", "s", "]", "]">>,
      <<"[", "[", "x">>,
      <<"[", "[", "x", "]", "]">>,
      <<"+", "5", " ", "[", "[", "x">>,
      <<"+", "5">> }

\* documents of one template whose hit and counter-hit fields hold a link
LinkDocuments ==
    { Document(<< << <<"id", IdOf(1)>>, <<"hit", f>>, <<"ch", f>> >> >>, <<>>, <<>>)
      : f \in LinkFields }

\* a1 with the children a2 and a3: a2 by its parent parameter, a3 by a
\* MoveInherit occurrence, while the parent parameter of a3 names a2
SiblingDocument ==
    Document(<< << <<"id", IdOf(1)>>, <<"input", <<"1">>>> >>,
                << <<"id", IdOf(2)>>, <<"input", <<"2">>>>, <<"parent", IdOf(1)>> >>,
                << <<"id", IdOf(3)>>, <<"input", <<"3">>>>, <<"parent", IdOf(2)>> >> >>,
             << <<IdOf(1), IdOf(3)>> >>, <<>>)

Documents ==
    WalkDocuments \cup CommandDocuments \cup InheritDocuments \cup QueryDocuments
        \cup {ScenarioDocument, CommandExampleDocument} \cup NotesDocuments
        \cup FlagDocuments \cup DuplicateDocuments
        \cup {MalformedDocument, GenericDocument} \cup KeyValueDocuments
        \cup LinkDocuments \cup {SiblingDocument}

----------------------------------------------------------------------------
(* DatabaseMan._parse_move_table as a state machine *)

NumIdle == value = <<>> /\ result = Absent /\ phase = "idle"

ScanIdle ==
    /\ template_content = <<>>
    /\ scan_pos = 0
    /\ params = <<>>
    /\ current_param = <<>>
    /\ brace_level = 0

TokenIdle == wikitext = <<>> /\ match_pos = 0 /\ template_matches = <<>>

CharIdle ==
    /\ game_json = <<>>
    /\ frame_characters = {}
    /\ existing_game_data = <<>>
    /\ max_char_id = 0
    /\ characters = <<>>
    /\ characters_manifest = <<>>
    /\ name_idx = 0
    /\ export_pc = "idle"
    /\ export_run = 0

FixIdle == stance = <<>> /\ stances = <<>> /\ test_idx = 0 /\ fix_pc = "idle"

Init ==
    /\ doc \in Documents
    /\ pc = "inherit"
    /\ idx = 1
    /\ inherit_map = EmptyDict
    /\ key_order = <<>>
    /\ all_parsed_moves = EmptyDict
    /\ processed_ids = {}
    /\ final_moves_data = <<>>
    /\ root_id = <<>>
    /\ current_id = <<>>
    /\ full_command_parts = <<>>
    /\ all_notes_raw = <<>>
    /\ chain = <<>>
    /\ chains = <<>>
    /\ NumIdle
    /\ ScanIdle
    /\ returned = <<>>
    /\ TokenIdle
    /\ CharIdle
    /\ FixIdle

walkVars == <<processed_ids, final_moves_data, root_id, current_id,
              full_command_parts, all_notes_raw, chain, chains>>

\* lines 239-250, one iteration
ProcessInherit ==
    /\ pc = "inherit"
    /\ idx <= Len(doc.inherits)
    /\ inherit_map' = inherit_entry(inherit_map, doc.inherits[idx])
    /\ idx' = idx + 1
    /\ UNCHANGED <<pc, doc, key_order, all_parsed_moves, walkVars, numVars, scanVars, returned, tokenVars, charVars, fixVars>>

InheritsDone ==
    /\ pc = "inherit"
    /\ idx > Len(doc.inherits)
    /\ pc' = "query"
    /\ idx' = 1
    /\ UNCHANGED <<doc, inherit_map, key_order, all_parsed_moves, walkVars, numVars, scanVars, returned, tokenVars, charVars, fixVars>>

\* lines 258-266, one iteration
ProcessQuery ==
    /\ pc = "query"
    /\ idx <= Len(doc.queries)
    /\ LET query_id == strip(doc.queries[idx])
       IN  /\ all_parsed_moves' = SetKey(all_parsed_moves, query_id, query_stub(query_id))
           /\ key_order' = AddKey(key_order, query_id)
    /\ idx' = idx + 1
    /\ UNCHANGED <<pc, doc, inherit_map, walkVars, numVars, scanVars, returned, tokenVars, charVars, fixVars>>

\* lines 268-274: return [] when the document holds no template at all
QueriesDone ==
    /\ pc = "query"
    /\ idx > Len(doc.queries)
    /\ pc' = IF doc.moves = <<>> /\ key_order = <<>> THEN "done"
             ELSE IF doc.moves = <<>> THEN "resolve"
             ELSE "collect"
    /\ idx' = 1
    /\ UNCHANGED <<doc, inherit_map, key_order, all_parsed_moves, walkVars, numVars, scanVars, returned, tokenVars, charVars, fixVars>>

\* lines 275-320, one iteration
ParseTemplate ==
    /\ pc = "collect"
    /\ idx <= Len(doc.moves)
    /\ LET parsed_params ==
               parsed_params_of(IF "raw" \in DOMAIN doc
                                THEN template_pairs(doc.moves[idx])
                                ELSE doc.moves[idx])
           move_id == Get(parsed_params, "id", <<>>)
       IN  IF stored(move_id)
           THEN /\ all_parsed_moves' =
                       SetKey(all_parsed_moves, move_id,
                              IF move_id \in DOMAIN inherit_map
                              THEN SetKey(parsed_params, "parent", inherit_map[move_id])
                              ELSE parsed_params)
                /\ key_order' = AddKey(key_order, move_id)
           ELSE UNCHANGED <<all_parsed_moves, key_order>>
    /\ idx' = idx + 1
    /\ UNCHANGED <<pc, doc, inherit_map, walkVars, numVars, scanVars, returned, tokenVars, charVars, fixVars>>

TemplatesDone ==
    /\ pc = "collect"
    /\ idx > Len(doc.moves)
    /\ pc' = "resolve"
    /\ idx' = 1
    /\ UNCHANGED <<doc, inherit_map, key_order, all_parsed_moves, walkVars, numVars, scanVars, returned, tokenVars, charVars, fixVars>>

\* lines 322-340
ResolveReferences ==
    /\ pc = "resolve"
    /\ all_parsed_moves' = resolve_references(all_parsed_moves, key_order)
    /\ pc' = "outer"
    /\ idx' = 1
    /\ UNCHANGED <<doc, inherit_map, key_order, walkVars, numVars, scanVars, returned, tokenVars, charVars, fixVars>>

\* a walk that emits a record whatever its end
end_already_processed_ignored(move_id, ids) == FALSE

\* line 397: current_id in processed_ids
end_already_processed(move_id, ids) == move_id \in ids

\* line 345: is this move skipped by the loop over the roots
is_skipped(move_id) ==
    move_id \in processed_ids \/ has_parent(all_parsed_moves[move_id])

\* lines 343-346: an already processed move or an explicit child is skipped
SkipMove ==
    /\ pc = "outer"
    /\ idx <= Len(key_order)
    /\ is_skipped(key_order[idx])
    /\ idx' = idx + 1
    /\ UNCHANGED <<pc, doc, inherit_map, key_order, all_parsed_moves, walkVars, numVars, scanVars, returned, tokenVars, charVars, fixVars>>

\* lines 348-352: the walk starts at a root
StartRoot ==
    /\ pc = "outer"
    /\ idx <= Len(key_order)
    /\ ~is_skipped(key_order[idx])
    /\ root_id' = key_order[idx]
    /\ current_id' = key_order[idx]
    /\ full_command_parts' = <<Get(all_parsed_moves[key_order[idx]], "input", <<>>)>>
    /\ all_notes_raw' = <<Get(all_parsed_moves[key_order[idx]], "notes", <<>>)>>
    /\ chain' = <<key_order[idx]>>
    /\ pc' = "trace"
    /\ UNCHANGED <<doc, inherit_map, key_order, all_parsed_moves, idx,
                   processed_ids, final_moves_data, chains, numVars, scanVars, returned, tokenVars, charVars, fixVars>>

\* lines 355-390, one iteration that finds a child
TraceChild ==
    /\ pc = "trace"
    /\ children_of(all_parsed_moves, key_order, current_id) # {}
    /\ Len(full_command_parts) <= MaxParts
    /\ LET child_id == key_order[Min(children_of(all_parsed_moves, key_order, current_id))]
           child_params == all_parsed_moves[child_id]
       IN  /\ full_command_parts' = Append(full_command_parts, child_fragment(child_params))
           /\ all_notes_raw' = IF Get(child_params, "notes", <<>>) # <<>>
                               THEN Append(all_notes_raw, child_params["notes"])
                               ELSE all_notes_raw
           /\ current_id' = child_id
           /\ chain' = Append(chain, child_id)
    /\ UNCHANGED <<pc, doc, inherit_map, key_order, all_parsed_moves, idx,
                   processed_ids, final_moves_data, root_id, chains, numVars, scanVars, returned, tokenVars, charVars, fixVars>>

\* lines 392-599: no child is left; the record of the chain is built unless
\* its end was already processed
FinishChain ==
    /\ pc = "trace"
    /\ children_of(all_parsed_moves, key_order, current_id) = {}
    /\ IF end_already_processed(current_id, processed_ids)
       THEN UNCHANGED <<processed_ids, final_moves_data, chains>>
       ELSE /\ processed_ids' = processed_ids \cup {current_id}
            /\ final_moves_data' =
                   Append(final_moves_data,
                          build_record(all_parsed_moves[root_id],
                                       all_parsed_moves[current_id],
                                       full_command_parts, all_notes_raw))
            /\ chains' = Append(chains, chain)
    /\ pc' = "outer"
    /\ idx' = idx + 1
    /\ UNCHANGED <<doc, inherit_map, key_order, all_parsed_moves, root_id,
                   current_id, full_command_parts, all_notes_raw, chain, numVars, scanVars, returned, tokenVars, charVars, fixVars>>

\* line 601
Return ==
    /\ pc = "outer"
    /\ idx > Len(key_order)
    /\ pc' = "done"
    /\ UNCHANGED <<doc, inherit_map, key_order, all_parsed_moves, idx, walkVars, numVars, scanVars, returned, tokenVars, charVars, fixVars>>

Next ==
    \/ ProcessInherit
    \/ InheritsDone
    \/ ProcessQuery
    \/ QueriesDone
    \/ ParseTemplate
    \/ TemplatesDone
    \/ ResolveReferences
    \/ SkipMove
    \/ StartRoot
    \/ TraceChild
    \/ FinishChain
    \/ Return

Spec == Init /\ [][Next]_vars

-----------------------------------------------------------------------------
(* The loop of lines 638-647: _parse_move_table is called for one page     *)
(* after another.                                                          *)

\* the pages of a run: a chain of two templates, two templates related by a
\* MoveInherit occurrence, a template beside a MoveQuery reference, a template
\* given as text, a second page that defines the identifiers a1 and a2, and
\* that page with templates that have no id
RunDocuments ==
    { ScenarioDocument,
      CommandExampleDocument,
      MalformedDocument,
      Document(<< << <<"id", IdOf(1)>>, <<"input", <<"1">>>> >>,
                  << <<"id", IdOf(2)>>, <<"input", <<"2">>>> >> >>,
               << <<IdOf(1), IdOf(2)>> >>, <<>>),
      Document(<< << <<"id", IdOf(1)>>, <<"input", <<"1">>>> >> >>,
               <<>>, << <<"q", "-", "1">> >>),
      RawDocument(<<RawMove(1, NoParent, <<"b">>)>>) }

\* a call that finds the set of the call before it
processed_ids_kept == processed_ids

\* line 323: processed_ids = set()
new_processed_ids == {}

\* line 647: the next call, every local of the function being created anew
\* (lines 228, 237, 322, 323)
Call ==
    /\ pc = "done"
    /\ Len(returned) < MaxCalls - 1
    /\ returned' = Append(returned, <<doc, final_moves_data>>)
    /\ doc' \in RunDocuments
    /\ pc' = "inherit"
    /\ idx' = 1
    /\ inherit_map' = EmptyDict
    /\ key_order' = <<>>
    /\ all_parsed_moves' = EmptyDict
    /\ processed_ids' = new_processed_ids
    /\ final_moves_data' = <<>>
    /\ root_id' = <<>>
    /\ current_id' = <<>>
    /\ full_command_parts' = <<>>
    /\ all_notes_raw' = <<>>
    /\ chain' = <<>>
    /\ chains' = <<>>
    /\ UNCHANGED <<numVars, scanVars, tokenVars, charVars, fixVars>>

RunsInit == Init /\ doc \in RunDocuments

RunsNext == Next \/ Call

RunsSpec == RunsInit /\ [][RunsNext]_vars

----------------------------------------------------------------------------
(* The chains and records of one document.  chains[i] is the chain of      *)
(* identifiers the walk traced for final_moves_data[i].                    *)

Moves == DOMAIN all_parsed_moves

ParentOf(id) == Get(all_parsed_moves[id], "parent", None)

InputOf(id) == Get(all_parsed_moves[id], "input", <<>>)

Last(seq) == seq[Len(seq)]

\* the places (chain, position) where an identifier occurs in the emitted chains
Occurrences(id) ==
    UNION { { <<c, p>> : p \in {q \in 1..Len(chains[c]) : chains[c][q] = id} }
            : c \in 1..Len(chains) }

\* the n-th ancestor of an identifier along the parent parameters, None when
\* the parent links end before it (at a root or at an undefined identifier)
RECURSIVE ancestor(_, _)
ancestor(id, n) ==
    IF n = 0 THEN id
    ELSE IF id \in Moves /\ has_parent(all_parsed_moves[id])
         THEN ancestor(ParentOf(id), n - 1)
         ELSE None

\* the parent links of the identifier never end: it lies on a cycle of the
\* inheritance relation or descends from one
CutOffByCycle(id) == ancestor(id, Cardinality(Moves) + 1) # None

\* C1: when _parse_move_table returns, every identifier of the identifier map
\* that is not cut off by a cycle occurs in exactly one emitted chain, exactly
\* once, also when several templates name the same parent.
ChainConservation ==
    pc = "done" =>
        \A id \in Moves : ~CutOffByCycle(id) => Cardinality(Occurrences(id)) = 1

\* C2: when _parse_move_table returns, every template whose parent is an
\* identifier the document never defines is the root of an emitted chain, so
\* a record exists for it.
DanglingParentIsRoot ==
    pc = "done" =>
        \A id \in Moves :
            (has_parent(all_parsed_moves[id]) /\ ParentOf(id) \notin Moves)
                => \E c \in 1..Len(chains) : chains[c][1] = id

ScenarioChain == << <<"a", "1">>, <<"a", "2">> >>

ScenarioCommon(rec) ==
    /\ rec.Command = <<"1", ",", "2">>
    /\ rec.Damage = <<"5">>
    /\ rec.DamageDec = 5
    /\ rec.Notes = <<"f","i","r","s","t"," ","h","i","t",";"," ",
                     "s","e","c","o","n","d"," ","h","i","t">>

\* C3 as documented: the scenario document resolves to exactly one record
\* with Command "1,2", Damage "5", DamageDec 5, HitLevel "h", Impact 10 and
\* Notes "first hit; second hit".
ScenarioRecordAsDocumented ==
    (pc = "done" /\ doc = ScenarioDocument) =>
        /\ Len(final_moves_data) = 1
        /\ ScenarioCommon(final_moves_data[1])
        /\ final_moves_data[1].HitLevel = <<"h">>
        /\ final_moves_data[1].Impact = Some(10)

\* C3: the scenario document (root a1 with input 1, target h, startup i10,
\* damage 10, notes "*first hit"; a2 with parent a1, input ",2", damage 5,
\* notes "*second hit") resolves to exactly one record with Command "1,2",
\* Damage "5", DamageDec 5 and Notes "first hit; second hit"; its HitLevel is
\* empty and its Impact absent (ImpactRaw empty), because the terminal a2
\* defines neither target nor startup.
ScenarioRecordFromTerminal ==
    (pc = "done" /\ doc = ScenarioDocument) =>
        /\ Len(final_moves_data) = 1
        /\ chains = <<ScenarioChain>>
        /\ ScenarioCommon(final_moves_data[1])
        /\ final_moves_data[1].HitLevel = <<>>
        /\ final_moves_data[1].Impact = Absent
        /\ final_moves_data[1].ImpactRaw = <<>>

ScenarioResolved ==
    /\ pc = "done"
    /\ doc = ScenarioDocument
    /\ chains = <<ScenarioChain>>
    /\ Len(final_moves_data) = 1

\* C4: whatever the child-to-parent assignment (self-parent and cycles
\* included), the chain a walk has traced never holds more links than the
\* identifier map holds moves: every iteration of the child-tracing loop adds
\* one link, so the loop started from a root reaches a move with no traced
\* child after at most that many iterations.
WalkTerminates ==
    pc = "trace" =>
        /\ Len(chain) <= Cardinality(Moves)
        /\ Len(full_command_parts) = Len(chain)

WalkEndedBesideCycle ==
    /\ pc = "outer"
    /\ chain # <<>>
    /\ \E id \in Moves : CutOffByCycle(id)

\* C5: when two templates name each other as parent (A -> B -> A), the
\* returned records include a chain of at most 2 links that holds A or B:
\* the walk was cut at the repeated identifier and the chain built so far
\* was emitted.
CycleEmitsTruncatedChain ==
    pc = "done" =>
        \A a, b \in Moves :
            (a # b /\ ParentOf(a) = b /\ ParentOf(b) = a)
                => \E c \in 1..Len(chains) :
                       /\ Len(chains[c]) <= 2
                       /\ \E p \in 1..Len(chains[c]) : chains[c][p] \in {a, b}

\* C6: no identifier occurs twice in the chain being traced, no identifier
\* occurs more than once in the emitted chains (neither twice in one chain
\* nor in two chains), and no two records have the same terminal.
NoDoubleEmission ==
    /\ \A i, j \in 1..Len(chain) : i # j => chain[i] # chain[j]
    /\ \A id \in Moves : Cardinality(Occurrences(id)) <= 1
    /\ \A c, d \in 1..Len(chains) : c # d => Last(chains[c]) # Last(chains[d])
    /\ Len(final_moves_data) = Len(chains)

\* a walk ended on a move an earlier chain had ended on, and emitted nothing
WalkSuppressed ==
    /\ pc = "done"
    /\ chain # <<>>
    /\ Len(chains) >= 1
    /\ \A c \in 1..Len(chains) : chains[c] # chain
    /\ Last(chain) \in processed_ids

\* C7: in every emitted record MoveName and WavuID are computed from the
\* parameters of the chain's root and the frame-data fields (HitLevel,
\* Impact/ImpactRaw, Damage/DamageDec, Block/BlockDec, Hit/HitDec,
\* CounterHit/CounterHitDec) from the parameters of the chain's terminal; a
\* frame-data parameter the terminal lacks leaves its fields empty or absent
\* (DamageDec 0), whatever the earlier links define.
FieldProvenance ==
    \A i \in 1..Len(final_moves_data) :
        LET rec == final_moves_data[i]
            root == all_parsed_moves[chains[i][1]]
            terminal == all_parsed_moves[Last(chains[i])]
            hit == Get(terminal, "hit", <<>>)
            ch == Get(terminal, "ch", <<>>)
        IN  /\ rec.MoveName = _clean_wikitext(Get(root, "name", <<>>))
            /\ rec.WavuID = int_or_absent(Get(root, "num", <<>>))
            /\ rec.HitLevel = hit_level_of(terminal)
            /\ rec.ImpactRaw = Get(terminal, "startup", <<>>)
            /\ rec.Impact = impact_of(Get(terminal, "startup", <<>>))
            /\ rec.Damage = _clean_wikitext(Get(terminal, "damage", <<>>))
            /\ rec.DamageDec = _clean_sum_damage(Get(terminal, "damage", None))
            /\ rec.Block = _clean_wikitext(Get(terminal, "block", <<>>))
            /\ rec.BlockDec = _clean_numerical(Get(terminal, "block", None))
            /\ rec.Hit = display_of(hit, hit_val_clean_of(hit))
            /\ rec.HitDec = dec_of(hit, hit_val_clean_of(hit))
            /\ rec.CounterHit = display_of(ch, ch_val_clean_of(ch))
            /\ rec.CounterHitDec = dec_of(ch, ch_val_clean_of(ch))
            /\ "target" \notin DOMAIN terminal => rec.HitLevel = <<>>
            /\ "startup" \notin DOMAIN terminal =>
                   rec.Impact = Absent /\ rec.ImpactRaw = <<>>
            /\ "damage" \notin DOMAIN terminal =>
                   rec.Damage = <<>> /\ rec.DamageDec = 0
            /\ "block" \notin DOMAIN terminal =>
                   rec.Block = <<>> /\ rec.BlockDec = Absent
            /\ "hit" \notin DOMAIN terminal => rec.Hit = <<>> /\ rec.HitDec = Absent
            /\ "ch" \notin DOMAIN terminal =>
                   rec.CounterHit = <<>> /\ rec.CounterHitDec = Absent

\* a record of a chain whose root defines frame data its terminal lacks
TerminalLacksRootFrameData ==
    /\ pc = "done"
    /\ \E i \in 1..Len(final_moves_data) :
           /\ Len(chains[i]) >= 2
           /\ {"target", "startup", "damage", "block", "hit", "ch", "name", "num"}
                  \subseteq DOMAIN all_parsed_moves[chains[i][1]]
           /\ "damage" \notin DOMAIN all_parsed_moves[Last(chains[i])]
           /\ final_moves_data[i].Damage = <<>>
           /\ final_moves_data[i].MoveName # <<>>

\* the fragment of a further link as the concatenation rule words it
RuleFragment(input) ==
    IF input = <<>> THEN <<>>
    ELSE IF Head(input) = "," THEN input
    ELSE <<",">> \o input

\* the root's fragment followed by the fragments of the links 2..n
RECURSIVE RuleAssembly(_, _)
RuleAssembly(links, n) ==
    IF n = 1 THEN InputOf(links[1])
    ELSE RuleAssembly(links, n - 1) \o RuleFragment(InputOf(links[n]))

StripLeadingComma(s) == IF s # <<>> /\ Head(s) = "," THEN Tail(s) ELSE s

\* C8: the Command of every record is the root's input fragment followed,
\* for each further link in chain order, by that link's fragment with one
\* ',' in front of it unless the fragment is empty or already starts with
\* ',', with one leading ',' of the whole removed (and the result trimmed);
\* root "1+2" with child "1" gives "1+2,1".
CommandConcatenation ==
    /\ \A i \in 1..Len(final_moves_data) :
           final_moves_data[i].Command =
               strip(StripLeadingComma(RuleAssembly(chains[i], Len(chains[i]))))
    /\ (pc = "done" /\ doc = CommandExampleDocument) =>
           /\ Len(final_moves_data) = 1
           /\ final_moves_data[1].Command = <<"1", "+", "2", ",", "1">>

\* a record of three links, the second with an empty fragment and the third
\* with a fragment that starts with ','
CommandOfThreeLinks ==
    /\ pc = "done"
    /\ \E i \in 1..Len(final_moves_data) :
           /\ Len(chains[i]) = 3
           /\ InputOf(chains[i][1]) = <<"1", "+", "2">>
           /\ InputOf(chains[i][2]) = <<>>
           /\ InputOf(chains[i][3]) = <<",", "2">>
           /\ final_moves_data[i].Command = <<"1", "+", "2", ",", "2">>

----------------------------------------------------------------------------
(* Specification of the numeric extraction: one call of _clean_numerical   *)
(* on a text field drawn from a bounded set.                               *)

NumAlphabet == {"i", "g", "b", "1", "2", "0", "-", "+", "(", ")", "~", ",", " "}

RECURSIVE StringsUpTo(_, _)
StringsUpTo(A, n) ==
    IF n = 0 THEN {<<>>}
    ELSE LET shorter == StringsUpTo(A, n - 1)
         IN  shorter \cup {Append(s, c) : s \in shorter, c \in A}

\* the examples of the documentation and of the code's comments
NumExamples ==
    { <<"1", "2", "~", "1", "4">>,
      <<"(", "+", "5", ")">>,
      <<"i", "1", "0", ",", "i", "1", "2">>,
      <<"a", "b", "c">>,
      <<"-", "3">>,
      <<"+", "3", "5", "a", " ", "(", "+", "2", "5", ")">>,
      <<"5", ",", "5">> }

NumInputs == StringsUpTo(NumAlphabet, MaxNumLen) \cup NumExamples \cup {None}

ParseIdle ==
    /\ pc = "idle"
    /\ doc = <<>>
    /\ inherit_map = <<>>
    /\ key_order = <<>>
    /\ all_parsed_moves = <<>>
    /\ idx = 0
    /\ processed_ids = {}
    /\ final_moves_data = <<>>
    /\ root_id = <<>>
    /\ current_id = <<>>
    /\ full_command_parts = <<>>
    /\ all_notes_raw = <<>>
    /\ chain = <<>>
    /\ chains = <<>>

NumInit ==
    /\ ParseIdle
    /\ ScanIdle
    /\ returned = <<>>
    /\ TokenIdle
    /\ CharIdle
    /\ FixIdle
    /\ value \in NumInputs
    /\ result = Absent
    /\ phase = "start"

CleanNumerical ==
    /\ phase = "start"
    /\ result' = _clean_numerical(value)
    /\ phase' = "done"
    /\ UNCHANGED <<value, parseVars, scanVars, returned, tokenVars, charVars, fixVars>>

NumNext == CleanNumerical

NumSpec == NumInit /\ [][NumNext]_vars

----------------------------------------------------------------------------
(* Specification of the damage summation: one call of _clean_sum_damage on *)
(* a text field drawn from a bounded set.                                  *)

SumAlphabet == {"1", "2", "0", "9", ",", "(", ")", "-", " ", "x"}

\* the examples of the documentation
SumExamples ==
    { <<"1", "0", ",", "1", "5">>,
      <<"5", "(", "3", ")">>,
      <<"a", "b", "c">>,
      <<"1", "0", "+", "5">>,
      <<"-", "1", "2", ",", "-", "3">> }

SumInputs == StringsUpTo(SumAlphabet, MaxNumLen) \cup SumExamples \cup {None}

SumInit ==
    /\ ParseIdle
    /\ ScanIdle
    /\ returned = <<>>
    /\ TokenIdle
    /\ CharIdle
    /\ FixIdle
    /\ value \in SumInputs
    /\ result = Absent
    /\ phase = "start"

CleanSumDamage ==
    /\ phase = "start"
    /\ result' = _clean_sum_damage(value)
    /\ phase' = "summed"
    /\ UNCHANGED <<value, parseVars, scanVars, returned, tokenVars, charVars, fixVars>>

SumNext == CleanSumDamage

SumSpec == SumInit /\ [][SumNext]_vars

----------------------------------------------------------------------------
(* Numeric extraction, stated over character positions *)

\* the positions of the trimmed field s that survive the removal of one
\* leading and one trailing classification letter and of the parenthesized
\* content, and lie before the first '~' or ','
KeptPositions(s) ==
    LET n == Len(s)
        lo == IF n >= 1 /\ s[1] \in LeadLetters THEN 2 ELSE 1
        hi == IF n >= lo /\ s[n] \in TrailLetters THEN n - 1 ELSE n
        InParens(i) == /\ \E a \in lo..i : s[a] = "("
                       /\ \E b \in i..hi : s[b] = ")"
        Outside == {i \in lo..hi : ~InParens(i)}
    IN  {i \in Outside : \A j \in Outside : j <= i => s[j] \notin {"~", ","}}

\* the characters of s at the positions P, in order
TextAt(s, P) ==
    [k \in 1..Cardinality(P) |->
        s[CHOOSE i \in P : Cardinality({j \in P : j < i}) = k - 1]]

RECURSIVE Pow10(_)
Pow10(e) == IF e = 0 THEN 1 ELSE 10 * Pow10(e - 1)

RECURSIVE DecimalFrom(_, _, _)
DecimalFrom(t, a, b) ==
    IF a > b THEN 0 ELSE DigitVal(t[a]) * Pow10(b - a) + DecimalFrom(t, a + 1, b)

\* the first signed integer literal of t, Absent when t holds no digit
FirstSignedInteger(t) ==
    IF \A i \in 1..Len(t) : ~IsDigit(t[i]) THEN Absent
    ELSE LET a == CHOOSE i \in 1..Len(t) :
                      IsDigit(t[i]) /\ \A j \in 1..(i - 1) : ~IsDigit(t[j])
             b == CHOOSE j \in a..Len(t) :
                      /\ \A k \in a..j : IsDigit(t[k])
                      /\ (j = Len(t) \/ ~IsDigit(t[j + 1]))
             magnitude == DecimalFrom(t, a, b)
         IN  IF a > 1 /\ t[a - 1] = "-" THEN Some(0 - magnitude) ELSE Some(magnitude)

ExtractedNumber(v) ==
    IF v = None THEN Absent
    ELSE LET s == strip(v) IN FirstSignedInteger(TextAt(s, KeptPositions(s)))

\* C9: _clean_numerical returns the first signed integer of the text that
\* is left after removing one leading/trailing classification letter and the
\* parenthesized content and cutting at the first '~' or ','; "12~14" gives
\* 12, "i10,i12" gives 10, "-3" gives -3; a field without such an integer
\* ("abc", the empty field, a missing field) gives absent, not zero.
NumericExtraction ==
    phase = "done" =>
        /\ result = ExtractedNumber(value)
        /\ (value = <<"1", "2", "~", "1", "4">> => result = Some(12))
        /\ (value = <<"i", "1", "0", ",", "i", "1", "2">> => result = Some(10))
        /\ (value = <<"-", "3">> => result = Some(-3))
        /\ (value \in {<<"a", "b", "c">>, <<>>, None} => result = Absent)
        /\ ((value = None \/ \A i \in 1..Len(value) : ~IsDigit(value[i]))
                => result = Absent)

NumericExtractionWitness ==
    /\ phase = "done"
    /\ value = <<"i", "1", "0", ",", "i", "1", "2">>
    /\ result = Some(10)

\* a field that is one parenthesized signed integer: "(5)", "(+5)", "(-12)"
IsParenthesizedInteger(v) ==
    /\ v # None
    /\ Len(v) >= 3
    /\ v[1] = "(" /\ v[Len(v)] = ")"
    /\ LET first == IF v[2] \in {"+", "-"} THEN 3 ELSE 2
       IN  /\ first <= Len(v) - 1
           /\ \A i \in first..(Len(v) - 1) : IsDigit(v[i])

\* C10 as stated: the field "(+5)" yields the integer 5.
ParenthesizedIntegerYieldsInteger ==
    (phase = "done" /\ value = <<"(", "+", "5", ")">>) => result = Some(5)

\* C10 as amended: a field that consists of a parenthesized signed integer
\* yields absent, since the parenthesized content is removed before the
\* integer is searched; "(+5)" gives absent.
ParenthesizedIntegerYieldsAbsent ==
    (phase = "done" /\ IsParenthesizedInteger(value)) => result = Absent

ParenthesizedIntegerWitness ==
    /\ phase = "done"
    /\ value = <<"(", "+", "5", ")">>
    /\ result = Absent

----------------------------------------------------------------------------
(* Damage summation, stated over the digits of the field *)

\* the number of digits that follow position i in its run of digits
DigitsAfter(s, i) ==
    Cardinality({j \in (i + 1)..Len(s) : \A k \in (i + 1)..j : IsDigit(s[k])})

\* what the digit at position i weighs in the literal it belongs to
DigitWeight(s, i) ==
    IF IsDigit(s[i]) THEN DigitVal(s[i]) * Pow10(DigitsAfter(s, i)) ELSE 0

RECURSIVE SumOfWeights(_, _)
SumOfWeights(s, n) ==
    IF n = 0 THEN 0 ELSE SumOfWeights(s, n - 1) + DigitWeight(s, n)

\* the sum of the unsigned integer literals of a field, 0 for a missing one
SumOfLiterals(v) == IF v = None THEN 0 ELSE SumOfWeights(v, Len(v))

\* C11: _clean_sum_damage returns the sum of all unsigned integer literals of
\* the field, whatever separators, parentheses and minus signs stand between
\* them ("10,15" gives 25, "5(3)" gives 8); an empty, non-numeric or missing
\* field gives 0; the result is an integer, never absent and never negative.
DamageSummation ==
    phase = "summed" =>
        /\ result \in Nat
        /\ result = SumOfLiterals(value)
        /\ (value = <<"1", "0", ",", "1", "5">> => result = 25)
        /\ (value = <<"5", "(", "3", ")">> => result = 8)
        /\ ((value = None \/ \A i \in 1..Len(value) : ~IsDigit(value[i]))
                => result = 0)

DamageSummationWitness ==
    /\ phase = "summed"
    /\ value = <<"5", "(", "3", ")">>
    /\ result = 8

-----------------------------------------------------------------------------
(* The parameter scan of lines 279-297, one character at a step.  scan_pos  *)
(* is 0 before line 279, the place of the next character during the loop   *)
(* and Len(template_content) + 2 after line 297.                           *)

\* what the Move regex of line 231 lets a template hold: characters other
\* than braces, and templates nested at most two deep
ScanItems ==
    { <<"a">>, <<"|">>, <<"=">>, <<"\n">>,
      <<"{", "{", "b", "|", "c", "}", "}">>,
      <<"{", "{", "b", "{", "{", "c", "|", "d", "}", "}", "|", "e", "}", "}">> }

RECURSIVE ItemsUpTo(_, _)
ItemsUpTo(items, n) ==
    IF n = 0 THEN {<<>>}
    ELSE LET shorter == ItemsUpTo(items, n - 1)
         IN  shorter \cup {s \o item : s \in shorter, item \in items}

ScanContents == ItemsUpTo(ScanItems, MaxScanItems)

ScanInit ==
    /\ ParseIdle
    /\ NumIdle
    /\ returned = <<>>
    /\ TokenIdle
    /\ CharIdle
    /\ FixIdle
    /\ template_content \in ScanContents
    /\ scan_pos = 0
    /\ params = <<>>
    /\ current_param = <<>>
    /\ brace_level = 0

\* lines 279-284
ScanBegin ==
    /\ scan_pos = 0
    /\ template_content' = collapse_newlines(template_content)
    /\ params' = ScanStart.params
    /\ current_param' = ScanStart.current_param
    /\ brace_level' = ScanStart.brace_level
    /\ scan_pos' = 1
    /\ UNCHANGED <<parseVars, numVars, returned, tokenVars, charVars, fixVars>>

\* lines 286-294, one iteration
ScanChar ==
    /\ scan_pos \in 1..Len(template_content)
    /\ LET st == scan_char([params |-> params, current_param |-> current_param,
                            brace_level |-> brace_level],
                           template_content[scan_pos])
       IN  /\ params' = st.params
           /\ current_param' = st.current_param
           /\ brace_level' = st.brace_level
    /\ scan_pos' = scan_pos + 1
    /\ UNCHANGED <<template_content, parseVars, numVars, returned, tokenVars, charVars, fixVars>>

\* lines 296-297
ScanEnd ==
    /\ scan_pos = Len(template_content) + 1
    /\ params' = scan_end([params |-> params, current_param |-> current_param,
                           brace_level |-> brace_level])
    /\ scan_pos' = scan_pos + 1
    /\ UNCHANGED <<template_content, current_param, brace_level, parseVars, numVars,
                   returned, tokenVars, charVars, fixVars>>

ScanNext == ScanBegin \/ ScanChar \/ ScanEnd

ScanSpec == ScanInit /\ [][ScanNext]_vars

\* the characters read so far, and how many braces of them are open
Read == SubSeq(template_content, 1, Min({scan_pos - 1, Len(template_content)}))
OpenBraces ==
    Cardinality({i \in 1..Len(Read) : Read[i] = "{"})
        - Cardinality({i \in 1..Len(Read) : Read[i] = "}"})

\* C20: during the scan the brace depth is the number of the braces read
\* that are still open, never negative; reading a '|' ends the current
\* parameter if and only if the depth is zero, and any other character, a
\* '|' inside a nested template included, is added to the parameter.
ScanDepth ==
    /\ [](scan_pos >= 1 => brace_level = OpenBraces /\ brace_level >= 0)
    /\ [][ScanChar =>
             IF template_content[scan_pos] = "|" /\ brace_level = 0
             THEN /\ params' = Append(params, strip(current_param))
                  /\ current_param' = <<>>
                  /\ brace_level' = brace_level
             ELSE /\ params' = params
                  /\ current_param' = Append(current_param, template_content[scan_pos])
                  /\ brace_level' >= 0]_vars

\* a scan that ended with a parameter holding a '|' of a nested template,
\* and with a '|' at depth zero that split two parameters
NestedSeparatorKept ==
    /\ scan_pos = Len(template_content) + 2
    /\ Len(params) = 2
    /\ params[1] = <<"a">>
    /\ params[2] = <<"{", "{", "b", "{", "{", "c", "|", "d", "}", "}", "|", "e", "}", "}">>

-----------------------------------------------------------------------------
(* Notes of a record against the note lines of its chain *)

\* lines 282-308 applied to the text as written, its line breaks kept
written_pairs(content) ==
    pairs_of(SelectSeq(scan_end(scan_from(content, 1, ScanStart)), has_equals))

\* the notes parameter, as written, of the template that defines move_id
WrittenNotes(move_id) ==
    LET k == CHOOSE j \in 1..Len(doc.moves) :
                 Get(parsed_params_of(written_pairs(doc.moves[j])), "id", <<>>) = move_id
    IN  Get(parsed_params_of(written_pairs(doc.moves[k])), "notes", <<>>)

\* the note lines of a notes parameter: list markers stripped, empty lines dropped
NoteLines(notes) ==
    LET lines == split_lines(notes)
    IN  {clean_line(lines[i]) : i \in 1..Len(lines)} \ {<<>>}

\* the note lines of all links of a chain
ChainNoteLines(ids) == UNION {NoteLines(WrittenNotes(ids[j])) : j \in 1..Len(ids)}

\* C12: the Notes of every record are the note lines of all links of its
\* chain, each line once, in sorted order and joined by "; ".
NotesNormalization ==
    "raw" \in DOMAIN doc =>
        \A i \in 1..Len(final_moves_data) :
            final_moves_data[i].Notes =
                join_nonempty(sorted(ChainNoteLines(chains[i])), <<";", " ">>)

-----------------------------------------------------------------------------
(* Flags of a record against its HitLevel and its Notes *)

\* marker is one of the comma-separated tokens of s, letter case ignored:
\* it occurs in s between two commas or ends of the string
IsToken(s, marker) ==
    contains(<<",">> \o lower(s) \o <<",">>, <<",">> \o marker \o <<",">>)

HoldsText(s, text) ==
    \E i \in 1..(Len(s) - Len(text) + 1) :
        \A j \in 1..Len(text) : LowerChar(s[i + j - 1]) = text[j]

\* the flags that lines 592-596 derive from the Notes
NoteFlagsButGuardBurst(rec) ==
    /\ rec.isBA = Flag(\/ HoldsText(rec.Notes, <<"p", "o", "w", "e", "r", " ", "c", "r", "u", "s", "h">>)
                       \/ HoldsText(rec.Notes, <<"a", "r", "m", "o", "r">>))
    /\ rec.isHE = Flag(HoldsText(rec.Notes, <<"h", "e", "a", "t", " ", "e", "n", "g", "a", "g", "e", "r">>))
    /\ rec.isHS = Flag(HoldsText(rec.Notes, <<"h", "e", "a", "t", " ", "s", "m", "a", "s", "h">>))
    /\ rec.isHB = Flag(HoldsText(rec.Notes, <<"h", "e", "a", "t", " ", "b", "u", "r", "s", "t">>))
    /\ rec.isHoming = Flag(HoldsText(rec.Notes, <<"h", "o", "m", "i", "n", "g">>))

\* C14 as documented: isBA, isHE, isHS, isHB, isHoming and GuardBurst are 1
\* exactly when the Notes hold the marker text of the flag, letter case
\* ignored, the marker of GuardBurst being "guard break".
NoteFlagsAsDocumented ==
    \A i \in 1..Len(final_moves_data) :
        /\ NoteFlagsButGuardBurst(final_moves_data[i])
        /\ final_moves_data[i].GuardBurst =
               Flag(HoldsText(final_moves_data[i].Notes, <<"g", "u", "a", "r", "d", " ", "b", "r", "e", "a", "k">>))

\* C14: isBA, isHE, isHS, isHB and isHoming are 1 exactly when the Notes hold
\* the marker text of the flag, and GuardBurst is 1 exactly when the Notes
\* hold "guard break" or "guard crush", letter case ignored; every flag is
\* decided on its own, so that one Notes string can set several flags.
NoteFlags ==
    \A i \in 1..Len(final_moves_data) :
        /\ NoteFlagsButGuardBurst(final_moves_data[i])
        /\ final_moves_data[i].GuardBurst =
               Flag(\/ HoldsText(final_moves_data[i].Notes, <<"g", "u", "a", "r", "d", " ", "b", "r", "e", "a", "k">>)
                    \/ HoldsText(final_moves_data[i].Notes, <<"g", "u", "a", "r", "d", " ", "c", "r", "u", "s", "h">>))
        /\ final_moves_data[i].Notes = <<"H", "o", "m", "i", "n", "g", " ", "a", "r", "m", "o", "r">>
               => final_moves_data[i].isHoming = 1 /\ final_moves_data[i].isBA = 1

\* a record whose Notes are "guard crush" and whose GuardBurst is set
GuardCrushSetsGuardBurst ==
    \E i \in 1..Len(final_moves_data) :
        /\ final_moves_data[i].Notes = <<"g", "u", "a", "r", "d", " ", "c", "r", "u", "s", "h">>
        /\ final_moves_data[i].GuardBurst = 1
        /\ final_moves_data[i].isBA = 0

-----------------------------------------------------------------------------
(* The records of a page against the records of the same page in earlier   *)
(* calls *)

\* C15: the records returned for a document are the records that every
\* earlier call returned for the same document, whatever documents were
\* processed before it or in between.
RerunYieldsSameRecords ==
    pc = "done" =>
        \A k \in 1..Len(returned) :
            returned[k][1] = doc => returned[k][2] = final_moves_data

\* a document is processed a second time after a different document, and it
\* has records
RerunAfterOtherDocument ==
    /\ pc = "done"
    /\ Len(returned) = 2
    /\ returned[1][1] = doc
    /\ returned[2][1] # doc
    /\ returned[2][2] # <<>>
    /\ final_moves_data # <<>>

-----------------------------------------------------------------------------
(* The identifier map against the templates of the document *)

Parsed == pc \in {"resolve", "outer", "trace", "done"}

\* the (key, value) pairs of the k-th template of the document
PairsOfTemplate(k) ==
    IF "raw" \in DOMAIN doc THEN template_pairs(doc.moves[k]) ELSE doc.moves[k]

\* the places of the templates that carry the identifier
TemplatesWithId(id) ==
    {k \in 1..Len(doc.moves) : Get(parsed_params_of(PairsOfTemplate(k)), "id", <<>>) = id}

\* the columns that hold text, and those that hold an int or None
TextColumns ==
    {"Command", "MoveName", "HitLevel", "ImpactRaw", "Damage", "Block", "Hit",
     "CounterHit", "Notes"}
NumberColumns == {"WavuID", "Impact", "BlockDec", "HitDec", "CounterHitDec"}

\* no text of the record holds the digit 9 and no number of it is one of the
\* numbers of EarlierOccurrence
FreeOfNine(rec) ==
    /\ \A column \in TextColumns :
           \A j \in 1..Len(rec[column]) : rec[column][j] # "9"
    /\ \A column \in NumberColumns :
           rec[column] \notin {Some(9), Some(-9), Some(19), Some(90)}
    /\ rec.DamageDec # 90

\* C16: when several templates carry the same id, the identifier map holds the
\* parameters of the last of them and nothing else, no parameter of an
\* earlier one reaches a record, and the function returns.
DuplicateIdKeepsLater ==
    /\ (Parsed /\ doc.inherits = <<>> /\ doc.queries = <<>>) =>
           \A id \in DOMAIN all_parsed_moves :
               /\ TemplatesWithId(id) # {}
               /\ all_parsed_moves[id] =
                      parsed_params_of(PairsOfTemplate(Max(TemplatesWithId(id))))
    /\ doc \in DuplicateDocuments =>
           \A i \in 1..Len(final_moves_data) : FreeOfNine(final_moves_data[i])

\* a document with two templates a1 is processed to its end and a1 has a record
\* with the frame data of the later template
DuplicateIdProcessed ==
    /\ pc = "done"
    /\ doc \in DuplicateDocuments
    /\ Cardinality(TemplatesWithId(IdOf(1))) = 2
    /\ \E i \in 1..Len(final_moves_data) :
           /\ chains[i] = <<IdOf(1)>>
           /\ final_moves_data[i].MoveName = <<"N", "1">>
           /\ final_moves_data[i].Command = <<>>

-----------------------------------------------------------------------------
(* Templates without an id *)

\* a document without its templates that have no id or an empty one
WithoutMalformed(d) ==
    LET HasId(t) ==
            Get(parsed_params_of(IF "raw" \in DOMAIN d THEN template_pairs(t) ELSE t),
                "id", <<>>) # <<>>
    IN  [d EXCEPT !.moves = SelectSeq(d.moves, HasId)]

\* C17: a template with no id parameter, or with an empty one, is not in the
\* identifier map, so that it is in no chain and no record holds a text of
\* it; the records of the document are the records of the document without
\* such templates.
MalformedTemplateIgnored ==
    /\ <<>> \notin DOMAIN all_parsed_moves
    /\ \A i \in 1..Len(chains) : \A j \in 1..Len(chains[i]) : chains[i][j] # <<>>
    /\ \A i \in 1..Len(final_moves_data) :
           \A column \in TextColumns :
               \A j \in 1..Len(final_moves_data[i][column]) :
                   final_moves_data[i][column][j] # "7"
    /\ pc = "done" =>
           \A k \in 1..Len(returned) :
               WithoutMalformed(returned[k][1]) = WithoutMalformed(doc)
                   => returned[k][2] = final_moves_data

\* the document with the two templates without id returned the record of
\* the document without them
MalformedTemplateSkipped ==
    /\ pc = "done"
    /\ doc = MalformedDocument
    /\ Len(final_moves_data) = 1
    /\ final_moves_data[1].Command = <<"1", "+", "2", ",", "1">>
    /\ \E k \in 1..Len(returned) :
           /\ returned[k][1] = CommandExampleDocument
           /\ returned[k][2] = final_moves_data

-----------------------------------------------------------------------------
(* MoveInherit occurrences that name no child *)

\* the inherit map of the occurrences that name a child, in their order
RECURSIVE ExplicitInheritMap(_)
ExplicitInheritMap(inherits) ==
    IF inherits = <<>> THEN EmptyDict
    ELSE LET groups == inherits[Len(inherits)]
             before == ExplicitInheritMap(SubSeq(inherits, 1, Len(inherits) - 1))
         IN  IF strip(groups[2]) # <<>> THEN inherit_entry(before, groups) ELSE before

\* the map entry of an identifier in the document without the occurrences
\* that name no child
EntryWithoutParentOnly(id) ==
    LET parsed_params == parsed_params_of(PairsOfTemplate(Max(TemplatesWithId(id))))
        explicit == ExplicitInheritMap(doc.inherits)
    IN  IF id \in DOMAIN explicit
        THEN SetKey(parsed_params, "parent", explicit[id])
        ELSE parsed_params

\* C18: a MoveInherit occurrence that names a parent and no child changes
\* nothing of what the walk reads: every entry of the identifier map, the
\* parent it holds included, is the one of the document without the
\* occurrence, and so are the roots, the chains and the records.
ParentOnlyInheritHasNoEffect ==
    (Parsed /\ doc.queries = <<>>) =>
        \A id \in DOMAIN all_parsed_moves :
            all_parsed_moves[id] = EntryWithoutParentOnly(id)

-----------------------------------------------------------------------------
(* Stubs of MoveQuery references *)

\* the identifiers that the MoveQuery references of the document name
Queried == {strip(doc.queries[k]) : k \in 1..Len(doc.queries)}

\* the entry of the identifier is the stub of lines 261-266
IsStub(id) == all_parsed_moves[id] = query_stub(id)

\* C19: every identifier of a MoveQuery reference is in the identifier map;
\* its entry is the stub exactly when no Move template defines the
\* identifier, otherwise it holds the parameters of the template and nothing
\* of the stub; a record whose chain starts at a queried identifier carries
\* the name of the stub only when no template defines that identifier.
StubNodes ==
    Parsed =>
        /\ \A id \in Queried :
               /\ id \in DOMAIN all_parsed_moves
               /\ IsStub(id) <=> TemplatesWithId(id) = {}
               /\ TemplatesWithId(id) # {} =>
                      /\ "referenced" \notin DOMAIN all_parsed_moves[id]
                      /\ \A key \in DOMAIN all_parsed_moves[id] \ {"parent"} :
                             all_parsed_moves[id][key] =
                                 parsed_params_of(PairsOfTemplate(Max(TemplatesWithId(id))))[key]
        /\ \A i \in 1..Len(final_moves_data) :
               /\ IsStub(chains[i][1]) => TemplatesWithId(chains[i][1]) = {}
               /\ final_moves_data[i].MoveName = query_stub(chains[i][1]).name
                      => TemplatesWithId(chains[i][1]) = {}

\* a1 is named by a MoveQuery reference and defined by a template, and its
\* record holds the input of the template; q-1 is only named by a
\* reference, and its stub is a root with a record
StubReplacedByDefinition ==
    /\ pc = "done"
    /\ Queried = {IdOf(1), <<"q", "-", "1">>}
    /\ TemplatesWithId(IdOf(1)) # {}
    /\ \E i \in 1..Len(final_moves_data) :
           /\ chains[i] = <<IdOf(1)>>
           /\ final_moves_data[i].Command = <<"1">>
           /\ final_moves_data[i].MoveName = <<>>
    /\ \E i \in 1..Len(final_moves_data) :
           /\ chains[i][1] = <<"q", "-", "1">>
           /\ final_moves_data[i].MoveName = query_stub(<<"q", "-", "1">>).name

-----------------------------------------------------------------------------
(* The parameters of a template against its text *)

\* the place of the first '=' of a parameter
FirstEquals(param) == Min({i \in 1..Len(param) : param[i] = "="})

\* the key of a parameter that holds '=': the text before its first '=',
\* trimmed and in lower case
KeyOf(param) == key_name(lower(strip(SubSeq(param, 1, FirstEquals(param) - 1))))

\* C21: only the first '=' of a parameter separates key from value, the key
\* is lower-cased and the value trimmed; a parameter without '=' gives no
\* key and the parameters after it are still read; the value of the key
\* 'id' is the identifier under which the template is stored.
KeyValueSplit ==
    (Parsed /\ doc \in KeyValueDocuments) =>
        LET split == split_params(doc.moves[1])
            WithKey == {j \in 1..Len(split) : \E i \in 1..Len(split[j]) : split[j][i] = "="}
        IN  /\ DOMAIN all_parsed_moves = {IdOf(1)}
            /\ all_parsed_moves[IdOf(1)].id = IdOf(1)
            /\ DOMAIN all_parsed_moves[IdOf(1)] = {KeyOf(split[j]) : j \in WithKey}
            /\ \A j \in WithKey :
                   (\A later \in WithKey : later > j => KeyOf(split[later]) # KeyOf(split[j]))
                       => all_parsed_moves[IdOf(1)][KeyOf(split[j])] =
                              strip(SubSeq(split[j], FirstEquals(split[j]) + 1, Len(split[j])))
            /\ split[Len(split)] = <<"i", "n", "p", "u", "t", "=", "1", "=", "2">> => all_parsed_moves[IdOf(1)].input = <<"1", "=", "2">>
            /\ split[Len(split)] = <<"I", "N", "P", "U", "T", " ", "=", " ", "3">> => all_parsed_moves[IdOf(1)].input = <<"3">>

\* a template "ID = a1|x|notes=a=b=c" is stored as a1 with the notes "a=b=c"
LaterEqualsKept ==
    /\ Parsed
    /\ doc \in KeyValueDocuments
    /\ split_params(doc.moves[1]) = <<<<"I", "D", " ", "=", " ", "a", "1">>, <<"x">>, <<"n", "o", "t", "e", "s", "=", "a", "=", "b", "=", "c">>>>
    /\ IdOf(1) \in DOMAIN all_parsed_moves
    /\ all_parsed_moves[IdOf(1)].notes = <<"a", "=", "b", "=", "c">>

-----------------------------------------------------------------------------
(* Hit and CounterHit of a record against the links of the fields *)

\* the field holds '[[' and no ']]' after it
Unterminated(field) ==
    /\ contains(field, <<"[", "[">>)
    /\ find(field, <<"]", "]">>, find(field, <<"[", "[">>, 1) + 2) = 0

\* the field holds a link '[[...]]' without '|' and ends with it
CompleteAtEnd(field) ==
    /\ contains(field, <<"[", "[">>)
    /\ find(field, <<"]", "]">>, find(field, <<"[", "[">>, 1) + 2) = Len(field) - 1
    /\ ~contains(field, <<"|">>)

\* the text of a link: what follows its '[[', up to its ']]' when it has one
Reference(field) ==
    SubSeq(field, find(field, <<"[", "[">>, 1) + 2,
           IF Unterminated(field) THEN Len(field) ELSE Len(field) - 2)

\* the fallback of a reference on hit and on counter-hit: the literal of the
\* fragment it names, "+0" when it names none
HitFallback(reference) ==
    IF contains(reference, Staples) \/ contains(reference, WallCombos)
    THEN <<"+", "3", "5", "a", " ", "(", "+", "2", "5", ")">>
    ELSE IF contains(reference, MiniCombos) THEN <<"+", "1", "4", "a">>
    ELSE <<"+", "0">>
CounterHitFallback(reference) ==
    IF contains(reference, Staples) THEN <<"+", "6", "5", "a">>
    ELSE IF contains(reference, MiniCombos) THEN <<"+", "1", "4", "a">>
    ELSE <<"+", "0">>

\* C22: a hit or counter-hit field with an unterminated link, or with a
\* complete pipe-free link and nothing after it, is replaced by the fallback
\* literal of the fragment that the link names ("+35a (+25)" on hit and
\* "+65a" on counter-hit for 'Bryan combos#Staples') and by "+0", number 0,
\* when it names none.
BrokenLinkRecovery ==
    \A i \in 1..Len(final_moves_data) :
        LET hit == Get(all_parsed_moves[Last(chains[i])], "hit", <<>>)
            ch == Get(all_parsed_moves[Last(chains[i])], "ch", <<>>)
        IN  /\ (Unterminated(hit) \/ CompleteAtEnd(hit)) =>
                   /\ final_moves_data[i].Hit = HitFallback(Reference(hit))
                   /\ final_moves_data[i].Hit = <<"+", "0">>
                          => final_moves_data[i].HitDec = Some(0)
            /\ (Unterminated(ch) \/ CompleteAtEnd(ch)) =>
                   /\ final_moves_data[i].CounterHit = CounterHitFallback(Reference(ch))
                   /\ final_moves_data[i].CounterHit = <<"+", "0">>
                          => final_moves_data[i].CounterHitDec = Some(0)

-----------------------------------------------------------------------------
(* move_template_regex and re.findall (lines 231-232) *)

MaxTokenItems == 3

Braces == {"{", "}"}

\* \{\{[^{}]*\}\} at position j: the position after the match, 0 when none
innermost_end(text, j) ==
    IF ~at(text, j, <<"{", "{">>) THEN 0
    ELSE LET k == first_in(text, Braces, j + 2)
         IN  IF k # 0 /\ at(text, k, <<"}", "}">>) THEN k + 2 ELSE 0

\* the regex without its nested alternative: no template inside a value
nested_end_unsupported(text, j) == 0

\* \{\{(?:[^{}]|\{\{[^{}]*\}\})*\}\} at position j: the position after the
\* match, 0 when none
RECURSIVE nested_rest(_, _)
nested_rest(text, p) ==
    LET k == first_in(text, Braces, p)
    IN  IF k = 0 THEN 0
        ELSE IF at(text, k, <<"}", "}">>) THEN k + 2
        ELSE LET e == innermost_end(text, k)
             IN  IF e = 0 THEN 0 ELSE nested_rest(text, e)

nested_end(text, j) ==
    IF at(text, j, <<"{", "{">>) THEN nested_rest(text, j + 2) ELSE 0

\* the capture group followed by \}\}, read from position p: the position of
\* the closing braces, 0 when the pattern fails
RECURSIVE content_end(_, _)
content_end(text, p) ==
    LET k == first_in(text, Braces, p)
    IN  IF k = 0 THEN 0
        ELSE IF at(text, k, <<"}", "}">>) THEN k
        ELSE LET e == nested_end(text, k)
             IN  IF e = 0 THEN 0 ELSE content_end(text, e)

\* \{\{Move\s*\| at position i: the position after the bar, 0 when none
move_start(text, i) ==
    IF ~at_ci(text, i, <<"{", "{", "m", "o", "v", "e">>) THEN 0
    ELSE LET j == skip_space(text, i + 6)
         IN  IF at(text, j, <<"|">>) THEN j + 1 ELSE 0

\* the whole pattern at position i: where the capture starts and where the
\* closing braces stand; from = 0 when the pattern does not match at i
move_match(text, i) ==
    LET c == move_start(text, i)
        e == IF c = 0 THEN 0 ELSE content_end(text, c)
    IN  IF e = 0 THEN [from |-> 0, to |-> 0] ELSE [from |-> c, to |-> e]

TokenItems ==
    { <<"z">>,
      <<"}", "}">>,
      <<"{", "{", "M", "o", "v", "e", "|", "a", "}", "}">>,
      <<"{", "{", "m", "o", "v", "e", " ", "|", "b", "{", "{", "c", "}", "}", "}", "}">>,
      <<"{", "{", "M", "o", "v", "e", "|", "e", "{", "{", "f", "{", "{", "g", "}", "}", "}", "}", "}", "}">>,
      <<"{", "{", "M", "o", "v", "e", "|", "u">>,
      <<"{", "{", "M", "o", "v", "e", "|", "v", "{", "{", "w", "}">>,
      <<"{", "{", "M", "o", "v", "e", "r", "|", "x", "}", "}">>,
      <<"{", "{", "y">> }

Wikitexts == ItemsUpTo(TokenItems, MaxTokenItems)

TokenInit ==
    /\ ParseIdle
    /\ NumIdle
    /\ ScanIdle
    /\ returned = <<>>
    /\ CharIdle
    /\ FixIdle
    /\ wikitext \in Wikitexts
    /\ match_pos = 1
    /\ template_matches = <<>>

\* the pattern matches at match_pos: the capture is kept and the search goes on
\* behind the match
TakeMatch ==
    /\ match_pos >= 1
    /\ match_pos <= Len(wikitext)
    /\ LET m == move_match(wikitext, match_pos)
       IN  /\ m.from # 0
           /\ template_matches' = Append(template_matches, SubSeq(wikitext, m.from, m.to - 1))
           /\ match_pos' = m.to + 2
    /\ UNCHANGED <<wikitext, parseVars, numVars, scanVars, returned, charVars, fixVars>>

\* no match at match_pos: the search moves one character on
NoMatchHere ==
    /\ match_pos >= 1
    /\ match_pos <= Len(wikitext)
    /\ move_match(wikitext, match_pos).from = 0
    /\ match_pos' = match_pos + 1
    /\ UNCHANGED <<wikitext, template_matches, parseVars, numVars, scanVars, returned, charVars, fixVars>>

TokenNext == TakeMatch \/ NoMatchHere

TokenSpec == TokenInit /\ [][TokenNext]_vars

-----------------------------------------------------------------------------
(* SC6ImportFrameData.py: the character manifest and the ids it assigns *)

MaxCharId == 2
MaxExisting == 2
MaxRuns == 2

\* the character names, in the order sorted() gives them
CharNames == <<"Astaroth", "Cervantes", "Ivy">>

NameSet == {CharNames[i] : i \in 1..Len(CharNames)}

\* line 376: sorted(set(...)) of the names of the frame data
sorted_names(names) == SelectSeq(CharNames, LAMBDA n : n \in names)

\* line 373 with every run starting from 0
max_id_from_zero(chars) == 0

\* line 373: max((c.get("id", 0) for c in characters), default=0)
max_id(chars) ==
    IF chars = <<>> THEN 0
    ELSE Max({IF "id" \in DOMAIN chars[i] THEN chars[i].id ELSE 0 : i \in 1..Len(chars)})

\* lines 370 and 381: the last entry of the file with that name, {} when
\* there is none
existing_char(chars, name) ==
    LET found == {i \in 1..Len(chars) : chars[i].name = name}
    IN  IF found = {} THEN <<>> ELSE chars[Max(found)]

\* the entries Game.json may hold for a character: with an id or without
GameEntries ==
    {[name |-> n] : n \in NameSet}
        \cup {[name |-> n, id |-> i] : n \in NameSet, i \in 0..MaxCharId}

\* the "characters" lists of the file before the first run; the empty list
\* also stands for a file that does not exist
GameFiles == ItemsUpTo({<<e>> : e \in GameEntries}, MaxExisting)

CharInit ==
    /\ ParseIdle
    /\ NumIdle
    /\ ScanIdle
    /\ TokenIdle
    /\ FixIdle
    /\ returned = <<>>
    /\ game_json \in GameFiles
    /\ frame_characters \in SUBSET NameSet
    /\ existing_game_data = <<>>
    /\ max_char_id = 0
    /\ characters = <<>>
    /\ characters_manifest = <<>>
    /\ name_idx = 0
    /\ export_pc = "start"
    /\ export_run = 1

\* lines 356-377: the file is read, the highest id and the names are computed
LoadGame ==
    /\ export_pc = "start"
    /\ existing_game_data' = game_json
    /\ max_char_id' = max_id(game_json)
    /\ characters' = sorted_names(frame_characters)
    /\ characters_manifest' = <<>>
    /\ name_idx' = 1
    /\ export_pc' = "manifest"
    /\ UNCHANGED <<game_json, frame_characters, export_run>>
    /\ UNCHANGED <<parseVars, numVars, scanVars, returned, tokenVars, fixVars>>

\* lines 379-433, one iteration: the id of the file is kept, a character
\* without one gets the next id
ManifestEntry ==
    /\ export_pc = "manifest"
    /\ name_idx <= Len(characters)
    /\ LET name == characters[name_idx]
           found == existing_char(existing_game_data, name)
       IN  IF "id" \in DOMAIN found
           THEN /\ characters_manifest' =
                       Append(characters_manifest, [name |-> name, id |-> found.id])
                /\ UNCHANGED max_char_id
           ELSE /\ max_char_id' = max_char_id + 1
                /\ characters_manifest' =
                       Append(characters_manifest, [name |-> name, id |-> max_char_id + 1])
    /\ name_idx' = name_idx + 1
    /\ UNCHANGED <<game_json, frame_characters, existing_game_data, characters,
                   export_pc, export_run>>
    /\ UNCHANGED <<parseVars, numVars, scanVars, returned, tokenVars, fixVars>>

\* lines 435-471: the manifest is written to Game.json (json.dump writes the
\* names and the int ids as they are, json.load reads them back unchanged)
WriteGame ==
    /\ export_pc = "manifest"
    /\ name_idx > Len(characters)
    /\ game_json' = characters_manifest
    /\ export_pc' = "written"
    /\ UNCHANGED <<frame_characters, existing_game_data, max_char_id, characters,
                   characters_manifest, name_idx, export_run>>
    /\ UNCHANGED <<parseVars, numVars, scanVars, returned, tokenVars, fixVars>>

\* the script is run again on the file it wrote, with the same frame data
RunAgain ==
    /\ export_pc = "written"
    /\ export_run < MaxRuns
    /\ export_pc' = "start"
    /\ export_run' = export_run + 1
    /\ UNCHANGED <<game_json, frame_characters, existing_game_data, max_char_id,
                   characters, characters_manifest, name_idx>>
    /\ UNCHANGED <<parseVars, numVars, scanVars, returned, tokenVars, fixVars>>

CharNext == LoadGame \/ ManifestEntry \/ WriteGame \/ RunAgain

CharSpec == CharInit /\ [][CharNext]_vars

-----------------------------------------------------------------------------
(* SC6ImportFrameData.py: caseFixer *)

MaxStanceLen == 4

\* the characters of the stances
StanceAlphabet == {"b", "t", "B", "s", " "}

\* the entries of stanceTranslator (lines 153-316) that are written with the
\* lower-case characters of StanceAlphabet, in the order of the list; no
\* other entry occurs in a stance over StanceAlphabet
stanceTranslator ==
    << <<<<"b", "t">>, "BT">>,
       <<<<"t", "s">>, "TS">>,
       <<<<"b", "s">>, "BS">>,
       <<<<"s", "s">>, "SS">> >>

\* a replace that leaves the text as it is
replace_nothing(s, old) == s

\* str.replace(old, ""): every occurrence of old, read from the left and not
\* overlapping, is taken out
RECURSIVE remove_all(_, _)
remove_all(s, old) ==
    LET i == find(s, old, 1)
    IN  IF i = 0 THEN s
        ELSE SubSeq(s, 1, i - 1) \o remove_all(SubSeq(s, i + Len(old), Len(s)), old)

FixInit ==
    /\ ParseIdle
    /\ NumIdle
    /\ ScanIdle
    /\ TokenIdle
    /\ CharIdle
    /\ returned = <<>>
    /\ stance \in StringsUpTo(StanceAlphabet, MaxStanceLen)
    /\ stances = <<>>
    /\ test_idx = 1
    /\ fix_pc = "loop"

\* lines 329-332: the token occurs in the lower-cased stance; its replacement
\* is appended and the token is taken out
RemoveToken ==
    /\ fix_pc = "loop"
    /\ test_idx <= Len(stanceTranslator)
    /\ contains(lower(stance), stanceTranslator[test_idx][1])
    /\ stances' = Append(stances, stanceTranslator[test_idx][2])
    /\ stance' = remove_all(lower(stance), stanceTranslator[test_idx][1])
    /\ UNCHANGED <<test_idx, fix_pc>>
    /\ UNCHANGED <<parseVars, numVars, scanVars, returned, tokenVars, charVars>>

\* lines 333-334: the token does not occur; the while loop ends and the for
\* loop goes on to the next entry
NextTest ==
    /\ fix_pc = "loop"
    /\ test_idx <= Len(stanceTranslator)
    /\ ~contains(lower(stance), stanceTranslator[test_idx][1])
    /\ test_idx' = test_idx + 1
    /\ UNCHANGED <<stance, stances, fix_pc>>
    /\ UNCHANGED <<parseVars, numVars, scanVars, returned, tokenVars, charVars>>

\* lines 341-345: every entry was tried; the rest is stripped and the list
\* is returned
ReturnStances ==
    /\ fix_pc = "loop"
    /\ test_idx > Len(stanceTranslator)
    /\ stance' = strip(stance)
    /\ fix_pc' = "returned"
    /\ UNCHANGED <<stances, test_idx>>
    /\ UNCHANGED <<parseVars, numVars, scanVars, returned, tokenVars, charVars>>

FixNext == RemoveToken \/ NextTest \/ ReturnStances

\* the statements of the function run one after the other without a pause
FixSpec == FixInit /\ [][FixNext]_vars /\ WF_vars(FixNext)

-----------------------------------------------------------------------------
(* C23: the template tokenizer *)

TokenDone == match_pos > Len(wikitext)

\* braces opened minus braces closed in text[i..k]
Depth(text, i, k) ==
    Cardinality({n \in i..k : text[n] = "{"}) - Cardinality({n \in i..k : text[n] = "}"})

\* position of the brace that closes the occurrence opened at i: the first one
\* where the count is back to zero; 0 when the braces never balance
Closing(text, i) ==
    LET K == {k \in i..Len(text) : Depth(text, i, k) = 0}
    IN  IF K = {} THEN 0 ELSE Min(K)

\* the braces of text[i..k] stand in pairs: read in order, the first of every
\* two is followed at once by a brace of the same kind
Paired(text, i, k) ==
    LET B == {n \in i..k : text[n] \in Braces}
    IN  \A n \in B : Cardinality({m \in B : m < n}) % 2 = 0
                        => n + 1 <= k /\ text[n + 1] = text[n]

\* templates nested in the occurrence text[i..k], counted in levels
Levels(text, i, k) == (Max({Depth(text, i, n) : n \in i..k}) - 2) \div 2

\* the parameter lists of the balanced occurrences met from position i on, by
\* brace counting: an occurrence that does not balance is passed over
RECURSIVE BalancedMoves(_, _)
BalancedMoves(text, i) ==
    LET S == {j \in i..Len(text) : move_start(text, j) # 0}
    IN  IF S = {} THEN <<>>
        ELSE LET k == Closing(text, Min(S))
             IN  IF k # 0 /\ Paired(text, Min(S), k) /\ Levels(text, Min(S), k) <= 2
                 THEN <<SubSeq(text, move_start(text, Min(S)), k - 2)>> \o BalancedMoves(text, k + 1)
                 ELSE BalancedMoves(text, Min(S) + 1)

\* C23: once the search has run over the page, the captures are the whole
\* parameter lists of the Move occurrences whose double braces balance
\* (templates nested in a value included), in the order of the page; an occurrence whose
\* braces do not balance gives no capture and the occurrences behind it are
\* captured all the same.
TemplatesExtracted == TokenDone => template_matches = BalancedMoves(wikitext, 1)

\* the page opens with an occurrence that never closes, and a later occurrence
\* with a template nested in its value has been captured
UnbalancedThenExtracted ==
    /\ TokenDone
    /\ move_start(wikitext, 1) # 0
    /\ Closing(wikitext, 1) = 0
    /\ Len(template_matches) = 1
    /\ Max({Depth(template_matches[1], 1, n) : n \in 1..Len(template_matches[1])}) = 2

-----------------------------------------------------------------------------
(* C25: one record for every root *)

\* the identifiers of the map without a non-empty parent pointer
Roots == {id \in Moves : ~has_parent(all_parsed_moves[id])}

\* C25: the function returns as many records as the map has identifiers
\* without a non-empty parent pointer, and no walk ends on a terminal that
\* was already processed (the test of line 397 never succeeds).
RecordPerRoot ==
    /\ pc = "done" => Len(final_moves_data) = Cardinality(Roots)
    /\ ~(/\ pc = "trace"
         /\ children_of(all_parsed_moves, key_order, current_id) = {}
         /\ end_already_processed(current_id, processed_ids))

-----------------------------------------------------------------------------
(* C24: first match wins, one parent pointer *)

\* the place of an identifier in the order of the map
PlaceOf(id) == CHOOSE i \in 1..Len(key_order) : key_order[i] = id

\* the link behind c[p] is the first identifier of the map, in its order,
\* whose parent pointer is c[p]
FirstChildFollows(c, p) ==
    /\ ParentOf(c[p + 1]) = c[p]
    /\ \A i \in 1..(PlaceOf(c[p + 1]) - 1) : ParentOf(key_order[i]) # c[p]

\* the emitted chains and the chain of the walk in progress
Walks == {chains[c] : c \in 1..Len(chains)} \cup {chain}

\* C24: in every walk each link is followed by the first identifier of the
\* map, in map order, whose parent pointer names it, and by no other; a
\* template stored under an identifier that a MoveInherit occurrence gives a
\* parent has that parent as its one pointer, whatever its parent parameter
\* says, and an identifier has the same predecessor wherever it is walked.
FirstMatchWins ==
    pc \in {"outer", "trace", "done"} =>
        /\ \A c \in Walks : \A p \in 1..(Len(c) - 1) : FirstChildFollows(c, p)
        /\ \A id \in Moves \cap DOMAIN inherit_map :
               TemplatesWithId(id) # {} => ParentOf(id) = inherit_map[id]
        /\ \A c, d \in Walks : \A p \in 2..Len(c), q \in 2..Len(d) :
               c[p] = d[q] => c[p - 1] = d[q - 1]

\* a record was emitted for a chain in which a link has two children, one of
\* them by a MoveInherit occurrence against its own parent parameter
SecondChildPassedOver ==
    /\ pc = "done"
    /\ \E c \in 1..Len(chains) : \E p \in 1..(Len(chains[c]) - 1) :
           \E id \in Moves \cap DOMAIN inherit_map :
               /\ id # chains[c][p + 1]
               /\ ParentOf(id) = chains[c][p]
               /\ \E k \in TemplatesWithId(id) :
                      Get(parsed_params_of(PairsOfTemplate(k)), "parent", None)
                          \notin {None, inherit_map[id]}

-----------------------------------------------------------------------------
(* C26: the ids of the character manifest *)

\* the ids the entries of a "characters" list carry
IdsOf(chars) == {chars[i].id : i \in {j \in 1..Len(chars) : "id" \in DOMAIN chars[j]}}

\* the entries that carry an id have pairwise different ids
DistinctIds(chars) ==
    \A i, j \in 1..Len(chars) :
        (i # j /\ "id" \in DOMAIN chars[i] /\ "id" \in DOMAIN chars[j])
            => chars[i].id # chars[j].id

\* the file that was read holds an entry with an id for the name
HasIdInFile(name) ==
    \E i \in 1..Len(existing_game_data) :
        /\ existing_game_data[i].name = name
        /\ "id" \in DOMAIN existing_game_data[i]
        /\ \A j \in (i + 1)..Len(existing_game_data) : existing_game_data[j].name # name

\* the id the file that was read gives the name (by its last entry)
IdInFile(name) ==
    existing_game_data[CHOOSE i \in 1..Len(existing_game_data) :
        /\ existing_game_data[i].name = name
        /\ \A j \in (i + 1)..Len(existing_game_data) : existing_game_data[j].name # name].id

\* C26: while the manifest is built and after it is written, every entry of
\* a character that the file gives an id has that id, every other entry has
\* an id greater than all ids of the file and than the ids of the entries
\* before it; if the ids of the file are pairwise different, so are the ids
\* of the manifest; and a run on the file the run before it wrote, with the
\* same frame data, writes the same names with the same ids again.
CharacterIds ==
    export_pc \in {"manifest", "written"} =>
        /\ \A m \in 1..Len(characters_manifest) :
               IF HasIdInFile(characters_manifest[m].name)
               THEN characters_manifest[m].id = IdInFile(characters_manifest[m].name)
               ELSE /\ \A i \in IdsOf(existing_game_data) : characters_manifest[m].id > i
                    /\ \A e \in 1..(m - 1) :
                           characters_manifest[m].id > characters_manifest[e].id
        /\ DistinctIds(existing_game_data) => DistinctIds(characters_manifest)
        /\ (export_run >= 2 /\ export_pc = "written") => game_json = existing_game_data

\* the second run is over and has written an id 0, which only the file before
\* the first run can have given, beside an id above MaxCharId, which only the
\* first run can have assigned
KeptAndNewIdsWrittenAgain ==
    /\ export_run = 2
    /\ export_pc = "written"
    /\ \E m, n \in 1..Len(game_json) :
           game_json[m].id = 0 /\ game_json[n].id > MaxCharId

-----------------------------------------------------------------------------
(* C27: caseFixer returns *)

\* C27: every iteration of the while loop that takes a token out leaves a
\* strictly shorter stance and appends one replacement, and caseFixer
\* returns for every stance.
CaseFixerReturns ==
    /\ [][RemoveToken => (Len(stance') < Len(stance) /\ Len(stances') = Len(stances) + 1)]_vars
    /\ <>(fix_pc = "returned")

\* the first token was taken out twice, the second time where taking it out
\* had put it together again, and the function has returned
TokenRemovedTwice ==
    /\ fix_pc = "returned"
    /\ Len(stances) >= 2
    /\ stances[1] = stanceTranslator[1][2]
    /\ stances[2] = stanceTranslator[1][2]

=============================================================================
